---------------------------- MODULE Spec2Model ----------------------------
(***************************************************************************)
(* Segmentation and feature-extraction engine of the furnace/casting log   *)
(* processors (UVNK core_algorithms / report_builder / data_orchestrator   *)
(* and the UPPF processor).                                                *)
(*                                                                         *)
(* Conventions.                                                            *)
(*  - A table (DataFrame) is a sequence of rows; the row at position k     *)
(*    (1-based in the sequence) has Index k, as add_Index assigns it.      *)
(*  - Python's None is the empty tuple, a present value x is <<x>>.        *)
(*  - NaN is a distinguished number; every comparison goes through the    *)
(*    operators below, which give IEEE results (any comparison with NaN    *)
(*    is false, != is true).                                               *)
(*  - Pressures of the leak-rate estimator are fixed-point, in 1/1000 of   *)
(*    the scaled unit (BP2 * 1000), so 0.045 is 45 and the cap 60 is 60000. *)
(***************************************************************************)
EXTENDS Integers, Sequences, FiniteSets, TLC

VARIABLES
    pc,              \* position of the running operation
    df,              \* the table the operation was given
    arg,             \* the operation's other arguments
    ret,             \* the operation's return value (or what it raised)
    loop_i,          \* find_valid_segments_by_form: loop counter i
    start_index,     \* find_valid_segments_by_form: start of the open run
    valid_segments,  \* find_valid_segments_by_form: intervals closed so far
    lower_bound,     \* calculate_holding_time_and_pour_time: the band's lower end
    upper_bound,     \* calculate_holding_time_and_pour_time: the band's upper end
    temp_df,         \* get_last_valid_leakage: temp_df['BP2'], restricted and scaled
    intervals,       \* get_last_valid_leakage: the stable intervals
    segments,        \* get_last_valid_leakage: the candidate segments kept
    seg_k,           \* get_last_valid_leakage: segments evaluated so far
    valid_leakage,   \* get_last_valid_leakage: the result so far
    result_rows,     \* process_dataframe_segments: the records built so far
    inst_i,          \* process_session_to_excel: installations done
    file_i,          \* process_session_to_excel: files of the installation done
    current_leakage_info,        \* process_session_to_excel: the leakage carried forward
    all_result_rows,             \* process_session_to_excel: records of the run
    newly_processed_files_batch, \* process_session_to_excel: cache keys to add
    execution_logs,              \* process_session_to_excel: log entries of the run
    store,           \* the output Excel file and the cache file on disk
    all_rows,        \* UPPF process_files: records of the run
    newly_processed_files,  \* UPPF process_files: file names to add to the cache
    file_count,      \* UPPF process_files: files met so far
    processed_count, \* UPPF process_files: files that gave a record
    results          \* per-segment metric functions: the values appended so far

segLocals == <<loop_i, start_index, valid_segments>>
holdLocals == <<lower_bound, upper_bound>>
leakLocals == <<temp_df, intervals, segments, seg_k, valid_leakage>>
rowsLocals == <<result_rows>>
sessLocals == <<inst_i, file_i, current_leakage_info, all_result_rows,
                newly_processed_files_batch, execution_logs, store>>
uppfLocals == <<all_rows, newly_processed_files, file_count, processed_count>>
metricLocals == <<results>>
vars == <<pc, df, arg, ret, segLocals, holdLocals, leakLocals, rowsLocals, sessLocals,
          uppfLocals, metricLocals>>

---------------------------------------------------------------------------
(* Values                                                                  *)

None == << >>
Some(x) == <<x>>
Val(o) == o[1]

NaN == -1
IsNaN(x) == x = NaN
\* a cell that holds text where numbers are expected
TextCell == -2
\* IEEE comparisons
Lt(a, b) == ~IsNaN(a) /\ ~IsNaN(b) /\ a < b
Le(a, b) == ~IsNaN(a) /\ ~IsNaN(b) /\ a <= b
Gt(a, b) == Lt(b, a)
Ge(a, b) == Le(b, a)
Ne(a, b) == IsNaN(a) \/ IsNaN(b) \/ a # b
Abs(x) == IF x < 0 THEN -x ELSE x

\* all sequences over S of length lo..hi
SeqsUpTo(S, lo, hi) == UNION {[1..n -> S] : n \in lo..hi}

\* a function with its values computed once
Tabulated(f) == f @@ << >>

\* a table: the set of its column names and its rows (records over them)
Table(cols, rows) == [columns |-> cols, rows |-> rows]
NRows(d) == Len(d.rows)
Column(d, c) == [k \in 1..NRows(d) |-> d.rows[k][c]]

\* add_Index: df['Index'] = range(1, len(df) + 1)
add_Index(d) ==
    Table(d.columns \cup {"Index"},
          [k \in 1..NRows(d) |-> ("Index" :> k) @@ d.rows[k]])

\* df[(df['Index'] >= start) & (df['Index'] <= end)]
Slice(d, start, end) ==
    Table(d.columns, SelectSeq(d.rows, LAMBDA r : r.Index >= start /\ r.Index <= end))

Raised(e) == [raised |-> e]
Returned(v) == [value |-> v]
\* locals of an operation that is not running
LoopIdle == loop_i = 0 /\ start_index = None /\ valid_segments = << >>
HoldIdle == lower_bound = None /\ upper_bound = None
LeakIdle ==
    /\ temp_df = << >> /\ intervals = << >> /\ segments = << >>
    /\ seg_k = 0 /\ valid_leakage = None
RowsIdle == result_rows = << >>
SessIdle ==
    /\ inst_i = 0 /\ file_i = 0 /\ current_leakage_info = None
    /\ all_result_rows = << >> /\ newly_processed_files_batch = << >>
    /\ execution_logs = << >> /\ store = None
UppfIdle ==
    /\ all_rows = << >> /\ newly_processed_files = << >>
    /\ file_count = 0 /\ processed_count = 0
MetricIdle == results = << >>

---------------------------------------------------------------------------
(* 4.1 Segmentation: find_valid_segments_by_form                           *)

MaxFormLen == 5
FormValues == {0, 1, 2}

\* one iteration of the for loop, at position i (0-based, as df.iloc[i])
SegBodyCloseAtCurrent(d, i, st) ==
    LET current_index == d.rows[i + 1].Index
        form_value == d.rows[i + 1].Form
    IN IF form_value # 0
       THEN IF st.start_index = None
            THEN [st EXCEPT !.start_index = Some(current_index)]
            ELSE st
       ELSE IF st.start_index # None
            THEN [start_index |-> None,
                  valid_segments |-> Append(st.valid_segments,
                                            <<Val(st.start_index), current_index>>)]
            ELSE st

SegBody(d, i, st) ==
    LET current_index == d.rows[i + 1].Index
        form_value == d.rows[i + 1].Form
    IN IF form_value # 0
       THEN IF st.start_index = None
            THEN [st EXCEPT !.start_index = Some(current_index)]
            ELSE st
       ELSE IF st.start_index # None
            THEN [start_index |-> None,
                  valid_segments |-> Append(st.valid_segments,
                                            <<Val(st.start_index), d.rows[i].Index>>)]
            ELSE st

\* after the loop: a run still open closes at the last row's Index
SegFinal(d, st) ==
    IF st.start_index # None
    THEN Append(st.valid_segments, <<Val(st.start_index), d.rows[NRows(d)].Index>>)
    ELSE st.valid_segments

\* the iterations lo..hi of the loop, in order, from the locals st (split in
\* halves to keep the evaluation shallow on long tables; the test on
\* DOMAIN st has the locals so far evaluated before the next half is entered)
RECURSIVE SegIterations(_, _, _, _)
SegIterations(d, lo, hi, st) ==
    IF lo > hi \/ DOMAIN st = {} THEN st
    ELSE IF lo = hi THEN SegBody(d, lo, st)
         ELSE LET mid == (lo + hi) \div 2
              IN SegIterations(d, mid + 1, hi, SegIterations(d, lo, mid, st))

SegLoop(d, i, st) == SegIterations(d, i, NRows(d) - 1, st)

find_valid_segments_by_form(d) ==
    SegFinal(d, SegLoop(d, 0, [start_index |-> None, valid_segments |-> << >>]))

FormOf(d) == Column(d, "Form")

InitSeg ==
    /\ df \in {add_Index(Table({"Form"}, [k \in 1..Len(f) |-> [Form |-> f[k]]])) :
                 f \in SeqsUpTo(FormValues, 0, MaxFormLen)}
    /\ pc = "seg_loop"
    /\ arg = None
    /\ ret = None
    /\ LoopIdle
    /\ HoldIdle
    /\ LeakIdle
    /\ RowsIdle
    /\ SessIdle
    /\ UppfIdle
    /\ MetricIdle

SegIterate ==
    /\ pc = "seg_loop"
    /\ loop_i < NRows(df)
    /\ LET st == SegBody(df, loop_i,
                         [start_index |-> start_index, valid_segments |-> valid_segments])
       IN /\ start_index' = st.start_index
          /\ valid_segments' = st.valid_segments
    /\ loop_i' = loop_i + 1
    /\ UNCHANGED <<metricLocals, uppfLocals, rowsLocals, sessLocals, pc, df, arg, ret, holdLocals, leakLocals>>

SegReturn ==
    /\ pc = "seg_loop"
    /\ loop_i >= NRows(df)
    /\ ret' = Returned(SegFinal(df,
                       [start_index |-> start_index, valid_segments |-> valid_segments]))
    /\ pc' = "seg_done"
    /\ UNCHANGED <<metricLocals, uppfLocals, rowsLocals, sessLocals, df, arg, segLocals, holdLocals, leakLocals>>

NextSeg == SegIterate \/ SegReturn

SpecSeg == InitSeg /\ [][NextSeg]_vars

\* the maximal runs of non-zero Form values, as a set of closed intervals
MaximalRuns(form) ==
    {<<a, b>> \in (1..Len(form)) \X (1..Len(form)) :
        /\ a <= b
        /\ \A k \in a..b : form[k] # 0
        /\ (a = 1 \/ form[a - 1] = 0)
        /\ (b = Len(form) \/ form[b + 1] = 0)}

SegmentsOk(form, segs) ==
    LET N == Len(form) IN
    \* exactly the maximal runs, each once
    /\ {segs[k] : k \in 1..Len(segs)} = MaximalRuns(form)
    /\ Len(segs) = Cardinality(MaximalRuns(form))
    \* sorted, disjoint, separated by at least one zero row
    /\ \A k \in 1..Len(segs) - 1 :
          /\ segs[k][2] + 1 < segs[k + 1][1]
          /\ \E z \in segs[k][2] + 1 .. segs[k + 1][1] - 1 : form[z] = 0
    \* every non-zero row in exactly one interval, no zero row in any
    /\ \A r \in 1..N :
          Cardinality({k \in 1..Len(segs) : segs[k][1] <= r /\ r <= segs[k][2]})
            = IF form[r] # 0 THEN 1 ELSE 0
    /\ ((\A r \in 1..N : form[r] = 0) => segs = << >>)
    /\ ((N >= 1 /\ \A r \in 1..N : form[r] # 0) => segs = << <<1, N>> >>)
    /\ ((N >= 1 /\ form[N] # 0) => (Len(segs) >= 1 /\ segs[Len(segs)][2] = N))

\* C1: find_valid_segments_by_form returns exactly the maximal runs of
\* non-zero Form values as sorted, disjoint closed Index intervals; all-zero
\* gives the empty list, all-non-zero gives (1, N), and a stream ending
\* while active closes its last interval at Index N.
C1_SegmentsAreMaximalRuns ==
    pc = "seg_done" => SegmentsOk(FormOf(df), ret.value)

\* a stream with two runs, the last still open at the end of the stream
C1_Witness ==
    /\ pc = "seg_done"
    /\ Len(ret.value) = 2
    /\ ret.value[2][2] = NRows(df)
    /\ \E r \in 1..NRows(df) : df.rows[r].Form = 0

---------------------------------------------------------------------------
(* 4.2 Fill (pour) detection: find_fill, UVNK and UPPF                     *)

DropThreshold == 35
DipThreshold == 1200
FillRangeLow == 1350
FillRangeHigh == 1700

\* Series.isna().all()
AllNaN(vals) == \A k \in 1..Len(vals) : IsNaN(vals[k])

\* Series.max(), NaN skipped (NaN when nothing is left)
SeriesMax(vals) ==
    IF AllNaN(vals) THEN NaN
    ELSE CHOOSE m \in {vals[k] : k \in 1..Len(vals)} :
            ~IsNaN(m) /\ \A k \in 1..Len(vals) : IsNaN(vals[k]) \/ vals[k] <= m

\* Series.idxmax() as a position 1..Len: the first occurrence of the maximum
IdxMaxFirstRow(vals) == 1

IdxMax(vals) ==
    CHOOSE k \in 1..Len(vals) :
        /\ vals[k] = SeriesMax(vals)
        /\ \A j \in 1..(k - 1) : vals[j] # SeriesMax(vals)

\* abs(next_value - current_value) > 35
IsJump(current_value, next_value) ==
    /\ ~IsNaN(current_value) /\ ~IsNaN(next_value)
    /\ Abs(next_value - current_value) > DropThreshold

\* piro_values[i:i+6] / filtered.loc[i:i+5]: six samples from position i
\* (0-based), clamped to the end
FillWindowSeven(vals, i) ==
    SubSeq(vals, i + 1, IF i + 7 <= Len(vals) THEN i + 7 ELSE Len(vals))

FillWindow(vals, i) ==
    SubSeq(vals, i + 1, IF i + 6 <= Len(vals) THEN i + 6 ELSE Len(vals))

\* any(val < 1200 for val in window)
AnyBelowDip(window) == \E k \in 1..Len(window) : Lt(window[k], DipThreshold)

\* UVNK: the for loop over range(len(piro_values) - 1), from i on; the
\* position (0-based, in the filtered list) it returns at, or None
RECURSIVE ScanUVNK(_, _)
ScanUVNK(vals, i) ==
    IF i >= Len(vals) - 1 THEN None
    ELSE IF IsJump(vals[i + 1], vals[i + 2]) /\ AnyBelowDip(FillWindow(vals, i))
         THEN Some(i)
         ELSE ScanUVNK(vals, i + 1)

\* core_algorithms.find_fill(segment): the fill Index, None, or KeyError
find_fill(segment) ==
    IF "Piro" \notin segment.columns THEN Raised("KeyError")
    ELSE LET piro == Column(segment, "Piro") IN
         IF AllNaN(piro) THEN Returned(None)
         ELSE LET max_index == segment.rows[IdxMax(piro)].Index
                  filtered == Slice(segment, max_index, segment.rows[NRows(segment)].Index)
                  indices == Column(filtered, "Index")
                  piro_values == Column(filtered, "Piro")
                  hit == ScanUVNK(piro_values, 0)
              IN Returned(IF hit = None THEN None ELSE Some(indices[Val(hit) + 1]))

\* the loop going on to the next candidate when one is out of range
RECURSIVE ScanUPPFPastRejected(_, _)
ScanUPPFPastRejected(vals, i) ==
    IF i >= Len(vals) - 1 THEN None
    ELSE IF /\ IsJump(vals[i + 1], vals[i + 2]) /\ AnyBelowDip(FillWindow(vals, i))
            /\ Le(FillRangeLow, vals[i + 1]) /\ Le(vals[i + 1], FillRangeHigh)
         THEN Some(i)
         ELSE ScanUPPFPastRejected(vals, i + 1)

\* UPPF: the for loop over range(len(filtered) - 1), from i on: the outcome
\* is "none" (loop ran out), or the first candidate's position in filtered
RECURSIVE ScanUPPF(_, _)
ScanUPPF(vals, i) ==
    IF i >= Len(vals) - 1 THEN None
    ELSE IF IsJump(vals[i + 1], vals[i + 2]) /\ AnyBelowDip(FillWindow(vals, i))
         THEN Some(i)
         ELSE ScanUPPF(vals, i + 1)

\* 1350 <= candidate_value <= 1700
InFillRange(v) == Le(FillRangeLow, v) /\ Le(v, FillRangeHigh)

\* uppf_processor.find_fill(data): the fill position (0-based row label
\* after reset_index), None, or KeyError
find_fill_uppf(data) ==
    IF "FOTOPIROMETR" \notin data.columns THEN Raised("KeyError")
    ELSE LET col == Column(data, "FOTOPIROMETR") IN
         IF AllNaN(col) THEN Returned(None)
         ELSE LET max_index == IdxMax(col) - 1
                  filtered == SubSeq(col, max_index + 1, Len(col))
                  hit == ScanUPPF(filtered, 0)
              IN IF hit = None THEN Returned(None)
                 ELSE LET candidate_index == max_index + Val(hit)
                          candidate_value == col[candidate_index + 1]
                      IN IF InFillRange(candidate_value)
                         THEN Returned(Some(candidate_index))
                         ELSE Returned(None)

MaxFillLen == 4
LongFillLen == 7
\* values around the thresholds: 1349 -> 1385 is a jump of 36, 1350 -> 1385 of 35
FillValues == {NaN, 1199, 1200, 1349, 1350, 1385, 1700, 1701}
LongFillValues == {1199, 1350, 1700}
\* the series of the fill-detection determinism property (Index 1..9)
ExampleSeries == <<1000, 1000, 1600, 1600, 1600, 1100, 1150, 1620, 1620>>

FillSeries ==
    SeqsUpTo(FillValues, 0, MaxFillLen)
      \cup SeqsUpTo(LongFillValues, LongFillLen, LongFillLen)
      \cup {ExampleSeries}

ChannelOf(variant) == IF variant = "UVNK" THEN "Piro" ELSE "FOTOPIROMETR"

\* a one-channel table holding the series, or a table without the channel
FillTable(variant, present, vals) ==
    LET t == IF present
             THEN Table({ChannelOf(variant)},
                        [k \in 1..Len(vals) |-> (ChannelOf(variant) :> vals[k])])
             ELSE Table({}, [k \in 1..Len(vals) |-> << >>])
    IN IF variant = "UVNK" THEN add_Index(t) ELSE t

InitFill ==
    /\ \E variant \in {"UVNK", "UPPF"} :
          /\ arg = [variant |-> variant]
          /\ \/ \E vals \in FillSeries : df = FillTable(variant, TRUE, vals)
             \/ \E n \in 0..MaxFillLen : df = FillTable(variant, FALSE, [k \in 1..n |-> NaN])
    /\ pc = "fill_call"
    /\ ret = None
    /\ LoopIdle
    /\ HoldIdle
    /\ LeakIdle
    /\ RowsIdle
    /\ SessIdle
    /\ UppfIdle
    /\ MetricIdle

CallFindFillUVNK ==
    /\ pc = "fill_call"
    /\ arg.variant = "UVNK"
    /\ ret' = find_fill(df)
    /\ pc' = "fill_done"
    /\ UNCHANGED <<metricLocals, uppfLocals, rowsLocals, sessLocals, df, arg, segLocals, holdLocals, leakLocals>>

CallFindFillUPPF ==
    /\ pc = "fill_call"
    /\ arg.variant = "UPPF"
    /\ ret' = find_fill_uppf(df)
    /\ pc' = "fill_done"
    /\ UNCHANGED <<metricLocals, uppfLocals, rowsLocals, sessLocals, df, arg, segLocals, holdLocals, leakLocals>>

NextFill == CallFindFillUVNK \/ CallFindFillUPPF

SpecFill == InitFill /\ [][NextFill]_vars

\* the channel of the table find_fill was given, and what it returned
FillChannelPresent == ChannelOf(arg.variant) \in df.columns
FillVals == Column(df, ChannelOf(arg.variant))
FillFound == pc = "fill_done" /\ "value" \in DOMAIN ret /\ ret.value # None
\* the returned label as a position 1..Len of the series: an Index (UVNK),
\* a 0-based row label (UPPF)
FillPos == IF arg.variant = "UVNK" THEN Val(ret.value) ELSE Val(ret.value) + 1

\* position q is at or after the first maximum, is not the last sample, is
\* followed by a jump above 35 and has a value below 1200 in v[q..q+5]
FillQualifies(vals, q) ==
    /\ q \in 1..(Len(vals) - 1)
    /\ \E m \in 1..q :
          /\ ~IsNaN(vals[m])
          /\ \A k \in 1..Len(vals) : IsNaN(vals[k]) \/ vals[k] <= vals[m]
    /\ ~IsNaN(vals[q]) /\ ~IsNaN(vals[q + 1])
    /\ (vals[q + 1] - vals[q] > 35 \/ vals[q] - vals[q + 1] > 35)
    /\ \E k \in q..(q + 5) : k <= Len(vals) /\ ~IsNaN(vals[k]) /\ vals[k] < 1200

\* C2: a returned fill position is the smallest position at or after the
\* first maximum that is not the last sample, has |v[p+1] - v[p]| > 35 and a
\* value below 1200 in v[p..p+5]; when no position qualifies the result is
\* 'not found' (both variants).
C2_FillIsFirstQualifying ==
    /\ FillFound =>
          /\ FillQualifies(FillVals, FillPos)
          /\ \A j \in 1..(FillPos - 1) : ~FillQualifies(FillVals, j)
    /\ (pc = "fill_done" /\ FillChannelPresent
          /\ \A q \in 1..NRows(df) : ~FillQualifies(FillVals, q))
       => ret = Returned(None)

\* a fill found after an earlier jump whose window has no dip: the dip sits
\* more than five samples after the first jump
C2_Witness ==
    /\ FillFound
    /\ NRows(df) = LongFillLen
    /\ FillPos > 1
    /\ \E j \in 1..(FillPos - 1) :
          /\ FillVals[j] = SeriesMax(FillVals)
          /\ IsJump(FillVals[j], FillVals[j + 1])

\* C3: every returned fill position has a channel value within [1350, 1700],
\* in the UVNK find_fill as well as in the UPPF find_fill.
C3_FillValueInRange ==
    FillFound => (1350 <= FillVals[FillPos] /\ FillVals[FillPos] <= 1700)

\* C4: for the series [1000,1000,1600,1600,1600,1100,1150,1620,1620] fill
\* detection returns 'not found' in the strict (UPPF) variant and also in
\* the lenient (UVNK) variant: the maximum 1620 sits at Index 8, and no jump
\* above 35 follows it.
C4_ExampleNotFound ==
    (pc = "fill_done" /\ FillChannelPresent /\ FillVals = ExampleSeries)
       => ret = Returned(None)

C4_Witness ==
    /\ pc = "fill_done" /\ FillChannelPresent /\ FillVals = ExampleSeries
    /\ arg.variant = "UVNK"
    /\ IdxMax(FillVals) = 8

\* C5: with the temperature channel missing, or present but entirely NaN,
\* find_fill returns 'not found' and raises nothing (both variants).
C5_MissingOrAllNaNNotFound ==
    (pc = "fill_done" /\ (~FillChannelPresent \/ AllNaN(FillVals)))
       => ret = Returned(None)

\* the first position that qualifies as a candidate
FirstCandidate(vals) ==
    CHOOSE q \in 1..Len(vals) :
        FillQualifies(vals, q) /\ \A j \in 1..(q - 1) : ~FillQualifies(vals, j)
ValueInRange(v) == ~IsNaN(v) /\ 1350 <= v /\ v <= 1700

\* C20: in the UPPF find_fill, when the first candidate (the first position
\* at or after the maximum with a jump above 35 and a value below 1200 in
\* its 6-sample window) has a value outside [1350, 1700], the result is
\* 'not found', also when a later position satisfies all three conditions.
C20_FirstCandidateRejectedEndsSearch ==
    (/\ pc = "fill_done" /\ arg.variant = "UPPF" /\ FillChannelPresent
     /\ \E q \in 1..NRows(df) : FillQualifies(FillVals, q)
     /\ ~ValueInRange(FillVals[FirstCandidate(FillVals)]))
       => ret = Returned(None)

\* the first candidate is out of range and a later position is a candidate
\* with a value in range
C20_Witness ==
    /\ pc = "fill_done" /\ arg.variant = "UPPF" /\ FillChannelPresent
    /\ \E q \in 1..NRows(df) : FillQualifies(FillVals, q)
    /\ ~ValueInRange(FillVals[FirstCandidate(FillVals)])
    /\ \E q \in (FirstCandidate(FillVals) + 1)..NRows(df) :
          FillQualifies(FillVals, q) /\ ValueInRange(FillVals[q])

\* the positions at or after the first maximum that are followed by a jump
\* above 35, whatever their window holds
JumpPositions(vals) ==
    {q \in IdxMax(vals)..(Len(vals) - 1) : IsJump(vals[q], vals[q + 1])}
FirstJump(vals) ==
    CHOOSE q \in JumpPositions(vals) : \A j \in JumpPositions(vals) : q <= j
\* no value below 1200 in v[q..q+5]
WindowWithoutDip(vals, q) ==
    \A k \in q..(q + 5) : k > Len(vals) \/ IsNaN(vals[k]) \/ vals[k] >= 1200

\* C21: the UVNK find_fill stops at the first pair at or after the maximum
\* with |next - current| > 35: when the window of that pair holds no value
\* below 1200 the result is 'not found', and no later pair is examined.
C21_StopsAtFirstJump ==
    (/\ pc = "fill_done" /\ arg.variant = "UVNK" /\ FillChannelPresent
     /\ ~AllNaN(FillVals)
     /\ JumpPositions(FillVals) # {}
     /\ WindowWithoutDip(FillVals, FirstJump(FillVals)))
       => ret = Returned(None)
    /\ ret = Returned(None)

---------------------------------------------------------------------------
(* 4.3 Holding time and pre-pour timing (UPPF):                            *)
(* calculate_holding_time_and_pour_time(series, max_value, fill_index)     *)

HighTempCutoff == 1620
HighTempBandLow == 1600
BandWidth == 20
SamplePeriod == 5

\* lines 77-82: the band for max_value, as <<lower_bound, upper_bound>>
HoldingBandCutoffAtBandLow(max_value) ==
    IF Gt(max_value, HighTempBandLow)
    THEN <<HighTempBandLow, max_value>>
    ELSE <<max_value - BandWidth, max_value>>

HoldingBand(max_value) ==
    IF Gt(max_value, HighTempCutoff)
    THEN <<HighTempBandLow, max_value>>
    ELSE <<max_value - BandWidth, max_value>>

\* series[(series >= lower_bound) & (series <= upper_bound)].index: the row
\* labels (0-based) of the samples inside the band, in order
HoldingIndices(series, lo, hi) ==
    LET RECURSIVE Collect(_)
        Collect(k) == IF k > Len(series) THEN << >>
                      ELSE IF Ge(series[k], lo) /\ Le(series[k], hi)
                           THEN <<k - 1>> \o Collect(k + 1)
                           ELSE Collect(k + 1)
    IN Collect(1)

\* lines 84-91, with the band chosen
HoldingResultFromFirst(series, lo, hi, fill_index) ==
    LET holding_indices == HoldingIndices(series, lo, hi) IN
    IF holding_indices = << >> THEN <<None, None>>
    ELSE <<Some(Len(holding_indices) * SamplePeriod),
           Some(Abs(fill_index - holding_indices[1]) * SamplePeriod)>>

HoldingResult(series, lo, hi, fill_index) ==
    LET holding_indices == HoldingIndices(series, lo, hi) IN
    IF holding_indices = << >> THEN <<None, None>>
    ELSE LET last_holding_index == holding_indices[Len(holding_indices)] IN
         <<Some(Len(holding_indices) * SamplePeriod),
           Some(Abs(fill_index - last_holding_index) * SamplePeriod)>>

MaxHoldLen == 3
HoldValues == {NaN, 1589, 1590, 1599, 1600, 1621, 1650}
HoldMaxValues == {1610, 1620, 1621, 1650}

InitHold ==
    /\ \E vals \in SeqsUpTo(HoldValues, 0, MaxHoldLen) :
          df = Table({"FOTOPIROMETR"}, [k \in 1..Len(vals) |-> [FOTOPIROMETR |-> vals[k]]])
    /\ \E mv \in HoldMaxValues, fi \in {None} \cup {Some(p) : p \in 0..MaxHoldLen} :
          arg = [max_value |-> mv, fill_index |-> fi]
    /\ pc = "hold_entry"
    /\ ret = None
    /\ LoopIdle
    /\ HoldIdle
    /\ LeakIdle
    /\ RowsIdle
    /\ SessIdle
    /\ UppfIdle
    /\ MetricIdle

\* if fill_index is None: return None, None
HoldNoFill ==
    /\ pc = "hold_entry"
    /\ arg.fill_index = None
    /\ ret' = Returned(<<None, None>>)
    /\ pc' = "hold_done"
    /\ UNCHANGED <<metricLocals, uppfLocals, rowsLocals, sessLocals, df, arg, segLocals, holdLocals, leakLocals>>

HoldSelectBand ==
    /\ pc = "hold_entry"
    /\ arg.fill_index # None
    /\ lower_bound' = Some(HoldingBand(arg.max_value)[1])
    /\ upper_bound' = Some(HoldingBand(arg.max_value)[2])
    /\ pc' = "hold_band"
    /\ UNCHANGED <<metricLocals, uppfLocals, rowsLocals, sessLocals, df, arg, ret, segLocals, leakLocals>>

HoldCount ==
    /\ pc = "hold_band"
    /\ ret' = Returned(HoldingResult(Column(df, "FOTOPIROMETR"), Val(lower_bound),
                                     Val(upper_bound), Val(arg.fill_index)))
    /\ pc' = "hold_done"
    /\ UNCHANGED <<metricLocals, uppfLocals, rowsLocals, sessLocals, df, arg, segLocals, holdLocals, leakLocals>>

NextHold == HoldNoFill \/ HoldSelectBand \/ HoldCount

SpecHold == InitHold /\ [][NextHold]_vars

\* the 0-based positions of the samples inside [lo, hi]
InBand(lo, hi) ==
    {p \in 0..(NRows(df) - 1) :
        LET v == df.rows[p + 1].FOTOPIROMETR IN v # NaN /\ lo <= v /\ v <= hi}
SetMax(S) == CHOOSE x \in S : \A y \in S : y <= x

\* C9: the band is [1600, max_value] when max_value > 1620 and
\* [max_value - 20, max_value] otherwise; holding_time is 5 x the number of
\* in-band samples, time_to_pour is 5 x the distance between the fill
\* position and the last in-band position; both are null when the fill is
\* undefined or no sample lies in the band.
C9_HoldingTimeAndPourTime ==
    pc = "hold_done" =>
        LET mv == arg.max_value
            lo == IF mv > 1620 THEN 1600 ELSE mv - 20
            P == InBand(lo, mv)
        IN IF arg.fill_index = None \/ P = {}
           THEN ret = Returned(<<None, None>>)
           ELSE LET d == Val(arg.fill_index) - SetMax(P) IN
                ret = Returned(<<Some(5 * Cardinality(P)),
                                 Some(5 * (IF d < 0 THEN -d ELSE d))>>)

\* a maximum in (1600, 1620] using the relative band, with a sample at 1599
\* inside it and the fill away from the last in-band sample
C9_Witness ==
    /\ pc = "hold_done"
    /\ arg.max_value = 1610
    /\ arg.fill_index # None
    /\ ret.value[1] = Some(10)
    /\ ret.value[2] # None /\ Val(ret.value[2]) > 0
    /\ \E k \in 1..NRows(df) : df.rows[k].FOTOPIROMETR = 1599

\* C10 as stated: the band is 50 units wide whenever max_value > 1620, and
\* otherwise exactly 20 units wide ending at max_value.
C10_BandWidthFiftyAbove1620 ==
    pc = "hold_band" =>
        /\ Val(upper_bound) = arg.max_value
        /\ Val(upper_bound) - Val(lower_bound) = IF arg.max_value > 1620 THEN 50 ELSE 20

\* C10 (amended): when max_value > 1620 the band is [1600, max_value], so its
\* width is max_value - 1600 (more than 20; 50 only for max_value = 1650);
\* otherwise it is exactly 20 units wide ending at max_value.
C10_BandWidth ==
    pc = "hold_band" =>
        /\ Val(upper_bound) = arg.max_value
        /\ Val(upper_bound) - Val(lower_bound)
             = IF arg.max_value > 1620 THEN arg.max_value - 1600 ELSE 20
        /\ (arg.max_value > 1620 => Val(upper_bound) - Val(lower_bound) > 20)

\* a band above the cutoff that is not 50 wide
C10_Witness ==
    /\ pc = "hold_band"
    /\ arg.max_value = 1621
    /\ Val(upper_bound) - Val(lower_bound) = 21

---------------------------------------------------------------------------
(* 4.8 / 4.9 Leak-rate estimator                                           *)
(*                                                                         *)
(* Fixed point: a raw BP2 value is held in units of 1e-6, the scaled value *)
(* (BP2 * 1000) in units of 1e-3, so the two are the same integer and the  *)
(* multiplication only changes the unit. Every constant below is the       *)
(* source's constant in units of 1e-3. Arithmetic is exact, where the      *)
(* source's is floating point.                                              *)

PressureCap == 60000
StableTolerance == 2000
MainRangeLow == 45
MainRangeHigh == 200
TargetOffset == 120
StabilizationLimit == 12
VolumeCoeff == 820
MinSegmentRows == 5
MinValidOffset == 100
HistogramBins == 100
WidenRows == 5

\* position (1-based) of the first minimum / maximum of vals[lo..hi]
RECURSIVE ArgMinIn(_, _, _)
ArgMinIn(vals, lo, hi) ==
    IF lo >= hi THEN lo
    ELSE LET mid == (lo + hi) \div 2
             a == ArgMinIn(vals, lo, mid)
             b == ArgMinIn(vals, mid + 1, hi)
         IN IF vals[b] < vals[a] THEN b ELSE a

RECURSIVE ArgMaxIn(_, _, _)
ArgMaxIn(vals, lo, hi) ==
    IF lo >= hi THEN lo
    ELSE LET mid == (lo + hi) \div 2
             a == ArgMaxIn(vals, lo, mid)
             b == ArgMaxIn(vals, mid + 1, hi)
         IN IF vals[b] > vals[a] THEN b ELSE a

\* pd.to_numeric(BP2, errors='coerce') * 1000
ScaledBP2(x) == IF IsNaN(x) THEN NaN ELSE x

\* the restriction with the cap itself left out
RestrictedBP2BelowCap(d) ==
    LET kept == SelectSeq(d.rows,
                   LAMBDA r : Lt(ScaledBP2(r.BP2), PressureCap) /\ r.Form = 0)
    IN [k \in 1..Len(kept) |-> ScaledBP2(kept[k].BP2)]

\* temp_df[(temp_df['BP2'] <= 60) & (temp_df['Form'] == 0)]['BP2'].values
RestrictedBP2(d) ==
    LET kept == SelectSeq(d.rows,
                   LAMBDA r : Le(ScaledBP2(r.BP2), PressureCap) /\ r.Form = 0)
    IN [k \in 1..Len(kept) |-> ScaledBP2(kept[k].BP2)]

\* np.histogram(bins=100, range=(min, max)): with min = max numpy widens
\* the range by 0.5 on both sides (500 in units of 1e-3)
HistogramFirstEdge(mn, mx) == IF mn = mx THEN mn - 500 ELSE mn
HistogramLastEdge(mn, mx) == IF mn = mx THEN mx + 500 ELSE mx

\* the bin (0..99) of value v; the maximum falls into the last bin
HistogramBin(v, first_edge, last_edge) ==
    LET k == ((v - first_edge) * HistogramBins) \div (last_edge - first_edge)
    IN IF k >= HistogramBins THEN HistogramBins - 1 ELSE k

\* hist of np.histogram: the count of every bin (bin b at position b + 1),
\* adding the values at positions lo..hi to the counts h (the test on
\* DOMAIN h has the counts so far evaluated before the next half is entered)
RECURSIVE Histogram(_, _, _, _, _, _)
Histogram(bp2_values, first_edge, last_edge, lo, hi, h) ==
    IF lo > hi \/ DOMAIN h = {} THEN h
    ELSE IF lo = hi
         THEN [h EXCEPT ![HistogramBin(bp2_values[lo], first_edge, last_edge) + 1] = @ + 1]
         ELSE LET mid == (lo + hi) \div 2
              IN Histogram(bp2_values, first_edge, last_edge, mid + 1, hi,
                           Histogram(bp2_values, first_edge, last_edge, lo, mid, h))

\* find_stable_value: the centre of the first most populous bin, as the
\* numerator of a fraction over 2 * HistogramBins
find_stable_value(bp2_values) ==
    IF Len(bp2_values) = 0 THEN 0
    ELSE LET n == Len(bp2_values)
             mn == bp2_values[ArgMinIn(bp2_values, 1, n)]
             mx == bp2_values[ArgMaxIn(bp2_values, 1, n)]
             first_edge == HistogramFirstEdge(mn, mx)
             last_edge == HistogramLastEdge(mn, mx)
             hist == Histogram(bp2_values, first_edge, last_edge, 1, n,
                               [b \in 1..HistogramBins |-> 0])
             stable_bin_index == ArgMaxIn(hist, 1, HistogramBins) - 1
         IN 2 * HistogramBins * first_edge
              + (2 * stable_bin_index + 1) * (last_edge - first_edge)

\* stable_range[0] <= v <= stable_range[1], stable_val given over 2 * bins
InStableRange(v, stable_val) ==
    /\ stable_val - 2 * HistogramBins * StableTolerance <= 2 * HistogramBins * v
    /\ 2 * HistogramBins * v <= stable_val + 2 * HistogramBins * StableTolerance

\* the maximal runs of consecutive stable positions (0-based), in order
StableIntervals(bp2_values, stable_val) ==
    LET n == Len(bp2_values)
        st == [k \in 1..n |-> InStableRange(bp2_values[k], stable_val)]
        starts == {k \in 1..n : st[k] /\ (k = 1 \/ ~st[k - 1])}
        ends == {k \in 1..n : st[k] /\ (k = n \/ ~st[k + 1])}
        RECURSIVE Build(_)
        Build(from) ==
            IF \A a \in starts : a < from THEN << >>
            ELSE LET a == CHOOSE x \in starts : x >= from /\ \A y \in starts : y >= from => x <= y
                     b == CHOOSE x \in ends : x >= a /\ \A y \in ends : y >= a => x <= y
                 IN << <<a - 1, b - 1>> >> \o Build(b + 1)
    IN Build(1)

\* Series.diff().dropna().tolist() of the rows lo..hi-1 (0-based, iloc[lo:hi])
Speeds(bp2_values, lo, hi) ==
    [k \in 1..(IF hi - lo - 1 > 0 THEN hi - lo - 1 ELSE 0) |->
        bp2_values[lo + k + 1] - bp2_values[lo + k]]

\* any delta in the main band is enough
is_valid_growthAnyInBand(speeds) ==
    \E k \in 1..Len(speeds) : MainRangeLow <= speeds[k] /\ speeds[k] < MainRangeHigh

\* is_valid_growth: the sub-band of width 0.155 anchored at [0.045, 0.2)
\* holding a delta is numbered k, the main band being 0; the first most
\* populated sub-band (in ascending order) must be the main band
is_valid_growth(speeds) ==
    IF Len(speeds) = 0 THEN FALSE
    ELSE LET range_width == MainRangeHigh - MainRangeLow
             band == [k \in 1..Len(speeds) |-> (speeds[k] - MainRangeLow) \div range_width]
             used == {band[k] : k \in 1..Len(speeds)}
             count == [b \in used |-> Cardinality({k \in 1..Len(speeds) : band[k] = b})]
             max_sr == CHOOSE b \in used :
                          /\ \A c \in used : count[c] <= count[b]
                          /\ \A c \in used : count[c] = count[b] => b <= c
         IN max_sr = 0

\* process_leakage_segment_math on the rows lo..hi-1 (iloc[lo:hi]); the rate
\* is the fraction num / den
process_leakage_segment_math(bp2_values, lo, hi) ==
    IF hi - lo < MinSegmentRows THEN None
    ELSE LET bp2_series == SubSeq(bp2_values, lo + 1, hi)
             half_idx == Len(bp2_series) \div 2
             start_idx == ArgMinIn(bp2_series, 1, half_idx) - 1
             end_idx == ArgMaxIn(bp2_series, 1, Len(bp2_series)) - 1
             calc_start_idx == IF start_idx + StabilizationLimit >= end_idx
                               THEN start_idx
                               ELSE start_idx + StabilizationLimit
             fits == calc_start_idx + TargetOffset <= end_idx
             calc_end_idx == IF fits THEN calc_start_idx + TargetOffset ELSE end_idx
             actual_rows == IF fits THEN TargetOffset ELSE end_idx - calc_start_idx
         IN IF actual_rows <= 0 THEN None
            ELSE Some([offset |-> actual_rows,
                       result |-> [num |-> (bp2_series[calc_end_idx + 1]
                                             - bp2_series[calc_start_idx + 1]) * VolumeCoeff,
                                   den |-> actual_rows]])

Min2(a, b) == IF a < b THEN a ELSE b
Max2(a, b) == IF a > b THEN a ELSE b

\* lines 391-410: the candidate segments in the order the code appends
\* them (in-between runs, then the lead-in run, then the trail-out run).
\* cand_lo..cand_hi-1 are the candidate's rows, lo..hi-1 the widened
\* segment's (0-based positions of the restricted stream, as iloc[lo:hi]).
LeakSegments(bp2_values, ivs) ==
    LET n == Len(bp2_values)
        Between(j) ==
            LET s_end == ivs[j][2]
                next_s_start == ivs[j + 1][1]
            IN [kind |-> "between", cand_lo |-> s_end + 1, cand_hi |-> next_s_start,
                lo |-> Max2(0, s_end - WidenRows),
                hi |-> Min2(n, next_s_start + WidenRows)]
        RECURSIVE Betweens(_)
        Betweens(j) ==
            IF j > Len(ivs) - 1 THEN << >>
            ELSE (IF is_valid_growth(Speeds(bp2_values, Between(j).cand_lo, Between(j).cand_hi))
                  THEN <<Between(j)>> ELSE << >>) \o Betweens(j + 1)
        first_start == ivs[1][1]
        last_end == ivs[Len(ivs)][2]
        start_cand ==
            IF first_start > 0 /\ is_valid_growth(Speeds(bp2_values, 0, first_start))
            THEN << [kind |-> "lead-in", cand_lo |-> 0, cand_hi |-> first_start,
                     lo |-> 0, hi |-> Min2(n, first_start + WidenRows)] >>
            ELSE << >>
        end_cand ==
            IF last_end + 1 < n /\ is_valid_growth(Speeds(bp2_values, last_end + 1, n))
            THEN << [kind |-> "trail-out", cand_lo |-> last_end + 1, cand_hi |-> n,
                     lo |-> Max2(0, last_end - WidenRows), hi |-> n] >>
            ELSE << >>
    IN IF ivs = << >> THEN << >>
       ELSE Betweens(1) \o start_cand \o end_cand

\* the test on the offset left out
IsValidLeakageAnyOffset(res) == res # None

\* res and res['offset'] >= 100
IsValidLeakage(res) == res # None /\ Val(res).offset >= MinValidOffset

\* lines 412-418: the loop over segments, from segment k on
RECURSIVE LastValidLeakage(_, _, _, _)
LastValidLeakage(bp2_values, segs, k, acc) ==
    IF k > Len(segs) THEN acc
    ELSE LET res == process_leakage_segment_math(bp2_values, segs[k].lo, segs[k].hi)
         IN LastValidLeakage(bp2_values, segs, k + 1,
                             IF IsValidLeakage(res) THEN res ELSE acc)

\* get_last_valid_leakage(df): None, or [offset, result]
get_last_valid_leakage(d) ==
    IF "BP2" \notin d.columns \/ "Form" \notin d.columns THEN None
    ELSE LET bp2_values == RestrictedBP2(d) IN
         IF Len(bp2_values) = 0 THEN None
         ELSE LET stable_val == find_stable_value(bp2_values)
                  ivs == StableIntervals(bp2_values, stable_val)
                  segs == LeakSegments(bp2_values, ivs)
              IN LastValidLeakage(bp2_values, segs, 1, None)

MaxBlocks == 4
BlockKinds == {"stable", "ramp", "steep", "fast", "short", "excluded"}

LeakRow(form, bp2) == [Form |-> form, BP2 |-> bp2]

\* the rows of one block of a pressure stream:
\*   stable   - 8 rows resting at 10.000
\*   ramp     - 115 rows rising by 0.100 per row from 12.100
\*   steep    - 115 rows rising by 0.150 per row from 12.100
\*   fast     - 115 rows rising by 0.300 per row from 12.100 (outside the
\*              main band of the growth test)
\*   short    - 20 rows rising by 0.100 per row from 12.100
\*   excluded - a row with the form open and a row above the cap of 60
\*   long     - 140 rows rising by 0.100 per row from 12.100
\*   just     - 107 rows rising by 0.100 per row from 12.100
\*   under    - 106 rows rising by 0.100 per row from 12.100
BlockRows(kind) ==
    CASE kind = "stable" -> [j \in 1..8 |-> LeakRow(0, 10000)]
      [] kind = "ramp" -> [j \in 1..115 |-> LeakRow(0, 12100 + 100 * (j - 1))]
      [] kind = "steep" -> [j \in 1..115 |-> LeakRow(0, 12100 + 150 * (j - 1))]
      [] kind = "fast" -> [j \in 1..115 |-> LeakRow(0, 12100 + 300 * (j - 1))]
      [] kind = "short" -> [j \in 1..20 |-> LeakRow(0, 12100 + 100 * (j - 1))]
      [] kind = "excluded" -> <<LeakRow(1, 10000), LeakRow(0, 60001)>>
      [] kind = "long" -> [j \in 1..140 |-> LeakRow(0, 12100 + 100 * (j - 1))]
      [] kind = "just" -> [j \in 1..107 |-> LeakRow(0, 12100 + 100 * (j - 1))]
      [] kind = "under" -> [j \in 1..106 |-> LeakRow(0, 12100 + 100 * (j - 1))]

RECURSIVE StreamRows(_)
StreamRows(blocks) ==
    IF blocks = << >> THEN << >>
    ELSE BlockRows(Head(blocks)) \o StreamRows(Tail(blocks))

LeakTable(blocks) == Table({"Form", "BP2"}, StreamRows(blocks))

\* short tables with pressures around the cap: not a number, below zero,
\* zero, 0.045 (scaled 45), scaled 60 and just above it
MaxEdgeLen == 2
EdgePressures == {NaN, 0 - 5000, 0, 45000, 60000, 60001}
EdgeForms == {0, 1}
EdgeTable(form, bp2) ==
    Table({"Form", "BP2"}, [k \in 1..Len(form) |-> LeakRow(form[k], bp2[k])])

\* streams of runs around the 100 and 120 sample marks
MaxLongBlocks == 3
LongBlockKinds == {"stable", "long", "just", "under"}

InitLeak ==
    /\ \/ \E blocks \in SeqsUpTo(BlockKinds, 0, MaxBlocks) :
             /\ arg = [blocks |-> blocks]
             /\ df = LeakTable(blocks)
       \/ \E blocks \in SeqsUpTo(LongBlockKinds, 1, MaxLongBlocks) :
             /\ arg = [blocks |-> blocks]
             /\ df = LeakTable(blocks)
       \/ \E n \in 1..MaxEdgeLen :
             \E form \in [1..n -> EdgeForms], bp2 \in [1..n -> EdgePressures] :
                /\ arg = None
                /\ df = EdgeTable(form, bp2)
    /\ pc = "leak_entry"
    /\ ret = None
    /\ LoopIdle
    /\ HoldIdle
    /\ temp_df = << >> /\ intervals = << >> /\ segments = << >>
    /\ seg_k = 0 /\ valid_leakage = None
    /\ RowsIdle
    /\ SessIdle
    /\ UppfIdle
    /\ MetricIdle

\* lines 366-374: the column check, the scaling and the restriction
LeakRestrict ==
    /\ pc = "leak_entry"
    /\ IF "BP2" \notin df.columns \/ "Form" \notin df.columns
       THEN /\ ret' = Returned(None) /\ pc' = "leak_done"
            /\ UNCHANGED temp_df
       ELSE /\ temp_df' = RestrictedBP2(df)
            /\ IF Len(RestrictedBP2(df)) = 0
               THEN ret' = Returned(None) /\ pc' = "leak_done"
               ELSE ret' = ret /\ pc' = "leak_stable"
    /\ UNCHANGED <<metricLocals, uppfLocals, rowsLocals, sessLocals, df, arg, segLocals, holdLocals, intervals, segments, seg_k, valid_leakage>>

\* lines 376-389: the stable value and the stable intervals
LeakFindIntervals ==
    /\ pc = "leak_stable"
    /\ intervals' = StableIntervals(temp_df, find_stable_value(temp_df))
    /\ pc' = "leak_candidates"
    /\ UNCHANGED <<metricLocals, uppfLocals, rowsLocals, sessLocals, df, arg, ret, segLocals, holdLocals, temp_df, segments, seg_k, valid_leakage>>

\* lines 391-410: the candidate runs that pass the growth test, widened
LeakCollectSegments ==
    /\ pc = "leak_candidates"
    /\ segments' = LeakSegments(temp_df, intervals)
    /\ pc' = "leak_loop"
    /\ UNCHANGED <<metricLocals, uppfLocals, rowsLocals, sessLocals, df, arg, ret, segLocals, holdLocals, temp_df, intervals, seg_k, valid_leakage>>

\* lines 413-416: one iteration of the loop over segments
LeakEvaluateSegment ==
    /\ pc = "leak_loop"
    /\ seg_k < Len(segments)
    /\ valid_leakage' = LastValidLeakage(temp_df, SubSeq(segments, seg_k + 1, seg_k + 1),
                                         1, valid_leakage)
    /\ seg_k' = seg_k + 1
    /\ UNCHANGED <<metricLocals, uppfLocals, rowsLocals, sessLocals, pc, df, arg, ret, segLocals, holdLocals, temp_df, intervals, segments>>

LeakReturn ==
    /\ pc = "leak_loop"
    /\ seg_k >= Len(segments)
    /\ ret' = Returned(valid_leakage)
    /\ pc' = "leak_done"
    /\ UNCHANGED <<metricLocals, uppfLocals, rowsLocals, sessLocals, df, arg, segLocals, holdLocals, leakLocals>>

NextLeak ==
    \/ LeakRestrict
    \/ LeakFindIntervals
    \/ LeakCollectSegments
    \/ LeakEvaluateSegment
    \/ LeakReturn

SpecLeak == InitLeak /\ [][NextLeak]_vars

\* the result process_leakage_segment_math gives candidate segment k
SegmentResult(k) == process_leakage_segment_math(temp_df, segments[k].lo, segments[k].hi)
\* the candidates that yield an offset of at least 100
Qualifying == {k \in 1..Len(segments) : IsValidLeakage(SegmentResult(k))}
\* the qualifying candidate that occurs last in stream (row) order
LastInStream ==
    CHOOSE k \in Qualifying : \A j \in Qualifying : segments[j].cand_lo <= segments[k].cand_lo

\* C8: among the candidate runs that pass the growth test and yield an
\* offset of at least 100, get_last_valid_leakage returns the result of the
\* one that occurs last in stream order.
C8_ReturnsLastInStreamOrder ==
    (pc = "leak_done" /\ Qualifying # {}) => ret = Returned(SegmentResult(LastInStream))

\* the whole call agrees with the steps
LeakStepsAgree ==
    pc = "leak_done" => ret = Returned(get_last_valid_leakage(df))

---------------------------------------------------------------------------
(* Holding time at the segment's peak: core_algorithms.holding_time_max_piro *)

PeakCutoff == 1600
PeakBandWidth == 20

\* lines 184-190: the number of rows counted, for the Piro values of the
\* rows the maximum is taken over and of the rows that are counted
PeakCount(peak_rows, counted_rows) ==
    LET max_temp == SeriesMax(peak_rows) IN
    IF Gt(max_temp, PeakCutoff)
    THEN Cardinality({k \in 1..Len(counted_rows) : Ge(counted_rows[k], PeakCutoff)})
    ELSE LET lo == IF IsNaN(max_temp) THEN NaN ELSE max_temp - PeakBandWidth
             hi == max_temp
         IN Cardinality({k \in 1..Len(counted_rows) :
                            Ge(counted_rows[k], lo) /\ Le(counted_rows[k], hi)})

\* the loop body with the maximum taken over the whole table
PeakBodyTableMax(d, seg, res) ==
    Append(res, PeakCount(Column(d, "Piro"),
                          Column(Slice(d, seg[1], seg[2]), "Piro")) * SamplePeriod)

\* lines 182-191: the loop body for the segment (start, end)
PeakBody(d, seg, res) ==
    LET segment == Slice(d, seg[1], seg[2])
    IN Append(res, PeakCount(Column(segment, "Piro"), Column(segment, "Piro")) * SamplePeriod)

RECURSIVE PeakLoop(_, _, _, _)
PeakLoop(d, segs, k, res) ==
    IF k > Len(segs) THEN res
    ELSE PeakLoop(d, segs, k + 1, PeakBody(d, segs[k], res))

holding_time_max_piro(d, segs) == PeakLoop(d, segs, 1, << >>)

MaxPeakLen == 4
PeakValues == {NaN, 1579, 1580, 1600, 1601}

\* up to two intervals of 1..n, in order and apart, as
\* find_valid_segments_by_form gives them
SegmentLists(n) ==
    {<< >>}
    \cup {<<<<a, b>>>> : a \in 1..n, b \in 1..n}
    \cup {<<<<a, b>>, <<c, e>>>> : a \in 1..n, b \in 1..n, c \in 1..n, e \in 1..n}

OrderedSegments(segs) ==
    /\ \A k \in 1..Len(segs) : segs[k][1] <= segs[k][2]
    /\ \A k \in 1..(Len(segs) - 1) : segs[k][2] < segs[k + 1][1]

InitPeak ==
    /\ \E n \in 0..MaxPeakLen :
         \E piro \in [1..n -> PeakValues] :
            df = add_Index(Table({"Piro"}, [k \in 1..n |-> [Piro |-> piro[k]]]))
    /\ \E segs \in SegmentLists(MaxPeakLen) :
          /\ OrderedSegments(segs)
          /\ \A k \in 1..Len(segs) : segs[k][2] <= NRows(df)
          /\ valid_segments = segs
    /\ arg = None
    /\ pc = "peak_loop"
    /\ ret = None
    /\ loop_i = 0 /\ start_index = None
    /\ HoldIdle
    /\ LeakIdle
    /\ RowsIdle
    /\ SessIdle
    /\ UppfIdle
    /\ MetricIdle

\* lines 182-191: one iteration
PeakSegment ==
    /\ pc = "peak_loop"
    /\ loop_i < Len(valid_segments)
    /\ results' = PeakBody(df, valid_segments[loop_i + 1], results)
    /\ loop_i' = loop_i + 1
    /\ UNCHANGED <<pc, df, arg, ret, start_index, valid_segments, holdLocals, leakLocals,
                   rowsLocals, sessLocals, uppfLocals>>

\* line 192
PeakReturn ==
    /\ pc = "peak_loop"
    /\ loop_i >= Len(valid_segments)
    /\ ret' = Returned(results)
    /\ pc' = "peak_done"
    /\ UNCHANGED <<df, arg, segLocals, holdLocals, leakLocals, rowsLocals, sessLocals,
                   uppfLocals, metricLocals>>

NextPeak == PeakSegment \/ PeakReturn

SpecPeak == InitPeak /\ [][NextPeak]_vars

\* the Piro values of the rows with Index in the k-th segment, as a set of
\* (Index, value) pairs that are numbers
PeakSamples(k) ==
    {x \in valid_segments[k][1]..valid_segments[k][2] : ~IsNaN(df.rows[x].Piro)}
PeakOf(k) ==
    CHOOSE p \in {df.rows[x].Piro : x \in PeakSamples(k)} :
        \A x \in PeakSamples(k) : df.rows[x].Piro <= p

\* C13: the value for each segment is 5 x the number of its samples with
\* Piro >= 1600 when its peak is above 1600, and 5 x the number of its
\* samples with Piro in [peak - 20, peak] otherwise; it is at least 5 when
\* the segment has a Piro value that is a number.
C13_HoldingTimeMaxPiro ==
    /\ \A k \in 1..Len(results) :
          /\ PeakSamples(k) = {} => results[k] = 0
          /\ PeakSamples(k) # {} =>
                /\ results[k] >= 5
                /\ PeakOf(k) > 1600 =>
                      results[k] = 5 * Cardinality({x \in PeakSamples(k) :
                                                       df.rows[x].Piro >= 1600})
                /\ PeakOf(k) <= 1600 =>
                      results[k] = 5 * Cardinality({x \in PeakSamples(k) :
                                                       /\ df.rows[x].Piro >= PeakOf(k) - 20
                                                       /\ df.rows[x].Piro <= PeakOf(k)})
    /\ pc = "peak_done" => ret = Returned(holding_time_max_piro(df, valid_segments))

\* a segment with peak 1600 (band [1580, 1600], two samples) before a
\* segment with peak 1601 (two samples at or above 1600)
C13_Witness ==
    /\ pc = "peak_done"
    /\ Len(results) = 2
    /\ PeakSamples(1) # {} /\ PeakSamples(2) # {}
    /\ PeakOf(1) = 1600 /\ results[1] = 10
    /\ PeakOf(2) = 1601 /\ results[2] = 10

---------------------------------------------------------------------------
(* Return of the form: core_algorithms.returning_ppf_temperature           *)

ReturnWindow == 5

\* line 161: all(window_values[j] > window_values[j + 1])
IsDecreasing(window_values) ==
    \A j \in 1..(Len(window_values) - 1) : Gt(window_values[j], window_values[j + 1])

\* lines 142-165: the Index of the first row i >= 1 of the segment whose
\* Form is below the row before and which starts a decreasing window that
\* ends at or before last; None when there is none
RECURSIVE ReturnScan(_, _, _, _)
ReturnScan(d, segment, last, i) ==
    IF i >= Len(segment) THEN None
    ELSE LET current_index == segment[i + 1].Index
             prev_value == segment[i].Form
             current_value == segment[i + 1].Form
             window_indices == [j \in 1..ReturnWindow |-> current_index + j - 1]
         IN IF /\ Lt(current_value, prev_value)
               /\ ~(window_indices[ReturnWindow] > last)
               /\ \A j \in 1..ReturnWindow : window_indices[j] \in 1..NRows(d)
               /\ IsDecreasing([j \in 1..ReturnWindow |-> d.rows[window_indices[j]].Form])
            THEN Some(current_index)
            ELSE ReturnScan(d, segment, last, i + 1)

\* lines 167-176: the tuple appended for return_index
ReturnTuple(d, return_index) ==
    IF return_index # None
    THEN LET return_row == d.rows[Val(return_index)]
         IN <<Some(return_row.DL), Some(return_row.DR),
              Some(return_row.TL), Some(return_row.TR)>>
    ELSE <<None, None, None, None>>

\* the loop body with the window held against the end of the table
ReturnBodyPastEnd(d, seg, res) ==
    Append(res, ReturnTuple(d, ReturnScan(d, Slice(d, seg[1], seg[2]).rows, NRows(d), 1)))

\* lines 137-176: the loop body for the segment (start, end)
ReturnBody(d, seg, res) ==
    Append(res, ReturnTuple(d, ReturnScan(d, Slice(d, seg[1], seg[2]).rows, seg[2], 1)))

RECURSIVE ReturnLoop(_, _, _, _)
ReturnLoop(d, segs, k, res) ==
    IF k > Len(segs) THEN res
    ELSE ReturnLoop(d, segs, k + 1, ReturnBody(d, segs[k], res))

returning_ppf_temperature(d, segs) == ReturnLoop(d, segs, 1, << >>)

MaxReturnLen == 7
FormSteps == {-1, 0, 1}

\* the Form column that starts at the top position and moves by the steps
RECURSIVE FormWalk(_, _)
FormWalk(first, steps) ==
    IF steps = << >> THEN <<first>>
    ELSE <<first>> \o FormWalk(first + steps[1], Tail(steps))

ReturnRow(k, form) ==
    [Form |-> form, DL |-> 100 + k, DR |-> 200 + k, TL |-> 300 + k, TR |-> 400 + k]

\* one segment anywhere, or two that split the table
ReturnSegmentLists(n) ==
    {<< >>}
    \cup {<<<<a, b>>>> : a \in 1..n, b \in 1..n}
    \cup {<<<<1, s>>, <<s + 1, n>>>> : s \in 1..(n - 1)}

InitReturn ==
    /\ \E n \in 1..MaxReturnLen :
         \E steps \in [1..(n - 1) -> FormSteps], blank \in {0, 3} :
            /\ df = add_Index(Table({"Form", "DL", "DR", "TL", "TR"},
                        [k \in 1..n |->
                            ReturnRow(k, IF k = blank THEN NaN
                                         ELSE FormWalk(MaxReturnLen + 1, steps)[k])]))
            /\ \E segs \in ReturnSegmentLists(n) :
                  /\ OrderedSegments(segs)
                  /\ valid_segments = segs
    /\ arg = None
    /\ pc = "return_loop"
    /\ ret = None
    /\ loop_i = 0 /\ start_index = None
    /\ HoldIdle
    /\ LeakIdle
    /\ RowsIdle
    /\ SessIdle
    /\ UppfIdle
    /\ MetricIdle

\* lines 137-176: one iteration
ReturnSegment ==
    /\ pc = "return_loop"
    /\ loop_i < Len(valid_segments)
    /\ results' = ReturnBody(df, valid_segments[loop_i + 1], results)
    /\ loop_i' = loop_i + 1
    /\ UNCHANGED <<pc, df, arg, ret, start_index, valid_segments, holdLocals, leakLocals,
                   rowsLocals, sessLocals, uppfLocals>>

\* line 178
ReturnReturn ==
    /\ pc = "return_loop"
    /\ loop_i >= Len(valid_segments)
    /\ ret' = Returned(results)
    /\ pc' = "return_done"
    /\ UNCHANGED <<df, arg, segLocals, holdLocals, leakLocals, rowsLocals, sessLocals,
                   uppfLocals, metricLocals>>

NextReturn == ReturnSegment \/ ReturnReturn

SpecReturn == InitReturn /\ [][NextReturn]_vars

FormAt(x) == df.rows[x].Form
\* the Index values of the k-th segment where the form starts to return
ReturnPoints(k) ==
    {x \in (valid_segments[k][1] + 1)..valid_segments[k][2] :
        /\ Lt(FormAt(x), FormAt(x - 1))
        /\ x + 4 <= valid_segments[k][2]
        /\ \A j \in 0..3 : Gt(FormAt(x + j), FormAt(x + j + 1))}
FirstReturnPoint(k) == CHOOSE x \in ReturnPoints(k) : \A y \in ReturnPoints(k) : x <= y

\* C14: the tuple of each segment is (DL, DR, TL, TR) of the row at the
\* smallest Index i of the segment, after its start, with Form[i] below
\* Form[i-1], i + 4 within the segment and Form strictly decreasing over
\* i..i+4; it is four nulls when the segment has no such Index.
C14_ReturningTemperature ==
    /\ \A k \in 1..Len(results) :
          IF ReturnPoints(k) = {} THEN results[k] = <<None, None, None, None>>
          ELSE LET row == df.rows[FirstReturnPoint(k)]
               IN results[k] = <<Some(row.DL), Some(row.DR), Some(row.TL), Some(row.TR)>>
    /\ pc = "return_done" => ret = Returned(returning_ppf_temperature(df, valid_segments))

\* a single segment whose return starts after a flat stretch
C14_Witness ==
    /\ pc = "return_done"
    /\ Len(results) = 1
    /\ ReturnPoints(1) # {}
    /\ FirstReturnPoint(1) > valid_segments[1][1] + 1
    /\ results[1][1] = Some(100 + FirstReturnPoint(1))

---------------------------------------------------------------------------
(* Form-speed classifier: core_algorithms.speed_form                       *)
(*                                                                         *)
(* Form is held in units of 1/1200, so that a raw speed (difference x 12)  *)
(* is an integer number of hundredths; the tolerance 0.1 is 10, the match  *)
(* threshold 0.2 is 20. Form values here are numbers (no NaN).             *)

SpeedTolerance == 10
MatchThreshold == 20
MedianKernel == 5
\* a ratio num/den is below 0.5
BelowHalfRatio(ratio) == 2 * ratio.num < ratio.den
\* line 277: a ratio num/den is below 0.8
BelowMatchRatio(ratio) == 5 * ratio.num < 4 * ratio.den

\* lines 210-213: raw_speeds of the rows of a segment, in hundredths
raw_speeds_of(rows) == [i \in 1..(Len(rows) - 1) |-> rows[i + 1].Form - rows[i].Form]

\* scipy.signal.medfilt(x, kernel_size=5): the median of the window around
\* i, with zeros beyond the ends
MedianWindow(x, i) ==
    [j \in 1..MedianKernel |->
        IF i + j - 3 \in 1..Len(x) THEN x[i + j - 3] ELSE 0]
MedianOf(w) ==
    CHOOSE v \in {w[j] : j \in 1..Len(w)} :
        /\ Cardinality({j \in 1..Len(w) : w[j] < v}) <= Len(w) \div 2
        /\ Cardinality({j \in 1..Len(w) : w[j] <= v}) > Len(w) \div 2
medfilt(x) == [i \in 1..Len(x) |-> MedianOf(MedianWindow(x, i))]

\* the positions left as they are: nothing is blanked
ValidIdxUnblanked(size) == 1..size

\* one position blanked at each end
ValidIdxOneBlanked(size) == IF size >= 2 THEN 2..(size - 1) ELSE 1..size

\* lines 226-228 and 255: the positions (1-based) of filtered that are not
\* NaN after filtered[:2] and filtered[-2:] are blanked
ValidIdx(size) == IF size >= 2 THEN 3..(size - 2) ELSE 1..size

\* Python round(val / 0.1) for val in hundredths: to the nearest integer,
\* a half to the even one
RoundTenths(val) ==
    LET a == Abs(val)
        q == a \div SpeedTolerance
        r == a % SpeedTolerance
        n == IF 2 * r > SpeedTolerance THEN q + 1
             ELSE IF 2 * r < SpeedTolerance THEN q
             ELSE IF q % 2 = 0 THEN q ELSE q + 1
    IN IF val < 0 THEN -n ELSE n
\* line 241: round(val / tolerance) * tolerance
Binned(val) == RoundTenths(val) * SpeedTolerance

\* the positions of the sequence that hold v
PositionsOf(vals, v) == {i \in 1..Len(vals) : vals[i] = v}
FirstPosition(vals, v) == CHOOSE i \in PositionsOf(vals, v) : \A j \in PositionsOf(vals, v) : i <= j

\* equal counts in order of value, the largest first
MostCommonAmongLargest(vals, candidates) ==
    CHOOSE v \in candidates :
        \A u \in candidates \ {v} :
            \/ Cardinality(PositionsOf(vals, v)) > Cardinality(PositionsOf(vals, u))
            \/ /\ Cardinality(PositionsOf(vals, v)) = Cardinality(PositionsOf(vals, u))
               /\ v > u

\* Counter(vals).most_common(2): the values in decreasing order of count,
\* equal counts in order of first appearance
MostCommonAmong(vals, candidates) ==
    CHOOSE v \in candidates :
        \A u \in candidates \ {v} :
            \/ Cardinality(PositionsOf(vals, v)) > Cardinality(PositionsOf(vals, u))
            \/ /\ Cardinality(PositionsOf(vals, v)) = Cardinality(PositionsOf(vals, u))
               /\ FirstPosition(vals, v) < FirstPosition(vals, u)
most_common2(vals) ==
    LET all == {vals[i] : i \in 1..Len(vals)}
        first == MostCommonAmong(vals, all)
    IN IF all = {} THEN << >>
       ELSE IF all = {first} THEN <<first>>
       ELSE <<first, MostCommonAmong(vals, all \ {first})>>

\* lines 261-270: calc_match_ratio, None or the ratio matches / idxs.size
calc_match_ratio(raw, filtered, valid_idx, target_mode_bin) ==
    IF target_mode_bin = None THEN None
    ELSE LET idxs == {i \in valid_idx : Binned(filtered[i]) = Val(target_mode_bin)}
             matches == {i \in idxs : Abs(raw[i] - filtered[i]) < MatchThreshold}
         IN IF idxs = {} THEN None
            ELSE Some([num |-> Cardinality(matches), den |-> Cardinality(idxs)])

NoSpeed == [speed_form1 |-> None, speed_form2 |-> None, form_status |-> "Form_OK"]

\* the ascending sequence of the members of a set of positions
RECURSIVE Ascending(_)
Ascending(S) ==
    IF S = {} THEN << >>
    ELSE LET least == CHOOSE x \in S : \A y \in S : x <= y
         IN <<least>> \o Ascending(S \ {least})

\* lines 202-282 for the rows of one segment and the positions kept
SpeedOfRows(rows, valid_idx) ==
    IF Len(rows) < 2 THEN NoSpeed
    ELSE LET raw == Tabulated(raw_speeds_of(rows))
             filtered == Tabulated(medfilt(raw))
             positive == Ascending({i \in valid_idx : filtered[i] > 0})
             grouped_filtered == [k \in 1..Len(positive) |-> Binned(filtered[positive[k]])]
             most_common == most_common2(grouped_filtered)
         IN IF positive = << >> THEN NoSpeed
            ELSE LET speed_form1 == Some(most_common[1])
                     speed_form2 == IF Len(most_common) > 1 THEN Some(most_common[2])
                                    ELSE None
                     ratio1 == calc_match_ratio(raw, filtered, valid_idx, speed_form1)
                     ratio2 == calc_match_ratio(raw, filtered, valid_idx, speed_form2)
                     status_error ==
                        \/ ratio1 # None /\ BelowMatchRatio(Val(ratio1))
                        \/ ratio2 # None /\ BelowMatchRatio(Val(ratio2))
                 IN [speed_form1 |-> speed_form1, speed_form2 |-> speed_form2,
                     form_status |-> IF status_error THEN "Form_Error" ELSE "Form_OK"]

\* the loop body without the blanking of the ends
SpeedBodyUnblanked(d, seg, res) ==
    LET rows == Slice(d, seg[1], seg[2]).rows
    IN Append(res, SpeedOfRows(rows, ValidIdxUnblanked(Len(rows) - 1)))

\* lines 201-282: the loop body for the segment (start, end)
SpeedBody(d, seg, res) ==
    LET rows == Slice(d, seg[1], seg[2]).rows
    IN Append(res, SpeedOfRows(rows, ValidIdx(Len(rows) - 1)))

RECURSIVE SpeedLoop(_, _, _, _)
SpeedLoop(d, segs, k, res) ==
    IF k > Len(segs) THEN res
    ELSE SpeedLoop(d, segs, k + 1, SpeedBody(d, segs[k], res))

\* line 284: the three lists
SpeedLists(res) ==
    <<[k \in 1..Len(res) |-> res[k].speed_form1],
      [k \in 1..Len(res) |-> res[k].speed_form2],
      [k \in 1..Len(res) |-> res[k].form_status]>>

speed_form(d, segs) == SpeedLists(SpeedLoop(d, segs, 1, << >>))

MaxSpeedLen == 7
SpeedSteps == {-10, 0, 30, 42}
SpeedFormStart == 1000

\* a segment over the whole table, or two that split it
SpeedSegmentLists(n) ==
    {<< >>, <<<<1, n>>>>} \cup {<<<<1, s>>, <<s + 1, n>>>> : s \in 1..(n - 1)}

\* a longer segment of a form that only rises, at three speeds: four
\* filtered speeds are kept
LongSpeedLen == 9
LongSpeedSteps == {30, 42, 54}

InitSpeed ==
    /\ \/ \E n \in 1..MaxSpeedLen :
            \E steps \in [1..(n - 1) -> SpeedSteps] :
               /\ df = add_Index(Table({"Form"},
                           [k \in 1..n |-> [Form |-> FormWalk(SpeedFormStart, steps)[k]]]))
               /\ \E segs \in SpeedSegmentLists(n) : valid_segments = segs
       \/ \E steps \in [1..(LongSpeedLen - 1) -> LongSpeedSteps] :
            /\ df = add_Index(Table({"Form"},
                        [k \in 1..LongSpeedLen |->
                            [Form |-> FormWalk(SpeedFormStart, steps)[k]]]))
            /\ valid_segments = <<<<1, LongSpeedLen>>>>
    /\ arg = None
    /\ pc = "speed_loop"
    /\ ret = None
    /\ loop_i = 0 /\ start_index = None
    /\ HoldIdle
    /\ LeakIdle
    /\ RowsIdle
    /\ SessIdle
    /\ UppfIdle
    /\ MetricIdle

\* lines 201-282: one iteration
SpeedSegment ==
    /\ pc = "speed_loop"
    /\ loop_i < Len(valid_segments)
    /\ results' = SpeedBody(df, valid_segments[loop_i + 1], results)
    /\ loop_i' = loop_i + 1
    /\ UNCHANGED <<pc, df, arg, ret, start_index, valid_segments, holdLocals, leakLocals,
                   rowsLocals, sessLocals, uppfLocals>>

\* line 284
SpeedReturn ==
    /\ pc = "speed_loop"
    /\ loop_i >= Len(valid_segments)
    /\ ret' = Returned(SpeedLists(results))
    /\ pc' = "speed_done"
    /\ UNCHANGED <<df, arg, segLocals, holdLocals, leakLocals, rowsLocals, sessLocals,
                   uppfLocals, metricLocals>>

NextSpeed == SpeedSegment \/ SpeedReturn

SpecSpeed == InitSpeed /\ [][NextSpeed]_vars

\* the raw speeds of the k-th segment, and the positions of its filtered
\* speeds that remain after the first two and the last two are blanked
SpeedRowsOf(k) == Slice(df, valid_segments[k][1], valid_segments[k][2]).rows
SpeedRaw(k) == Tabulated(raw_speeds_of(SpeedRowsOf(k)))
SpeedKept(raw) == {i \in 1..Len(raw) : i > 2 /\ i <= Len(raw) - 2}
SpeedPositiveBins(raw, filtered) ==
    {Binned(filtered[i]) : i \in {j \in SpeedKept(raw) : filtered[j] > 0}}
\* the filtered samples of the bin, and those of them that match the raw speed
SpeedInBin(raw, filtered, b) == {i \in SpeedKept(raw) : Binned(filtered[i]) = b}
SpeedMatching(raw, filtered, b) ==
    {i \in SpeedInBin(raw, filtered, b) :
        /\ raw[i] - filtered[i] < 20
        /\ filtered[i] - raw[i] < 20}
\* the match ratio of the bin is below 0.8
SpeedRatioLow(raw, filtered, b) ==
    /\ SpeedInBin(raw, filtered, b) # {}
    /\ 10 * Cardinality(SpeedMatching(raw, filtered, b))
          < 8 * Cardinality(SpeedInBin(raw, filtered, b))

\* C15: a segment with speeds has status Form_Error exactly when the match
\* ratio of speed_form_1, or that of speed_form_2 when it exists, is below
\* 0.8, the match ratio of a mode being the fraction of the filtered samples
\* in its bin whose raw speed is less than 0.2 from the filtered speed; with
\* exactly one positive filtered bin speed_form_2 is null and the status
\* follows from the first ratio alone.
C15_FormStatus ==
    \A k \in 1..Len(results) :
        results[k].speed_form1 # None =>
            LET raw == SpeedRaw(k)
                filtered == Tabulated(medfilt(raw))
                low1 == SpeedRatioLow(raw, filtered, Val(results[k].speed_form1))
            IN /\ results[k].form_status \in {"Form_OK", "Form_Error"}
               /\ results[k].form_status = "Form_Error" <=>
                     \/ low1
                     \/ /\ results[k].speed_form2 # None
                        /\ SpeedRatioLow(raw, filtered, Val(results[k].speed_form2))
               /\ Cardinality(SpeedPositiveBins(raw, filtered)) = 1 =>
                     /\ results[k].speed_form2 = None
                     /\ results[k].form_status = "Form_Error" <=> low1

\* Form_Error that comes from the second mode alone
C15_Witness ==
    /\ pc = "speed_done"
    /\ Len(results) = 1
    /\ results[1].speed_form2 # None
    /\ results[1].form_status = "Form_Error"
    /\ ~SpeedRatioLow(SpeedRaw(1), medfilt(SpeedRaw(1)), Val(results[1].speed_form1))
    /\ SpeedRatioLow(SpeedRaw(1), medfilt(SpeedRaw(1)), Val(results[1].speed_form2))

\* C16: a segment with fewer than 2 samples, or without a positive value
\* among its median-filtered speeds once the first two and the last two are
\* blanked, has null speed_form_1, null speed_form_2 and status Form_OK.
C16_NoSpeed ==
    \A k \in 1..Len(results) :
        LET raw == SpeedRaw(k)
            filtered == Tabulated(medfilt(raw))
        IN (Len(raw) < 1 \/ \A i \in SpeedKept(raw) : filtered[i] <= 0)
              => /\ results[k].speed_form1 = None
                 /\ results[k].speed_form2 = None
                 /\ results[k].form_status = "Form_OK"

\* a segment of one sample before a segment that rises over three speeds,
\* all of them blanked
C16_Witness ==
    /\ pc = "speed_done"
    /\ Len(results) = 2
    /\ Len(SpeedRowsOf(1)) = 1
    /\ Len(SpeedRaw(2)) = 3
    /\ \A i \in 1..3 : SpeedRaw(2)[i] > 0
    /\ results[1] = NoSpeed /\ results[2] = NoSpeed

---------------------------------------------------------------------------
(* 4.7 Record assembly: report_builder.process_dataframe_segments          *)
(*                                                                         *)
(* A record is the fill row with the fields added to it. Durations in      *)
(* minutes are fractions num / den. The values that                        *)
(* returning_ppf_temperature, holding_time_max_piro and speed_form compute *)
(* for all segments before the loop are taken per segment.                 *)
(* Record keys: max_bp2 'Давление макс', min_bp2 'Давление мин', holding   *)
(* 'Выдержка ППФ', heating 'Время нагрева', tp_max 'Термопара_макс',       *)
(* max_form 'Максимальное положение блока', installation 'Установка',      *)
(* holding_max_piro 'Время удержания макс. темп.', form_status             *)
(* 'Статус формы'.                                                         *)

HoldingTempThreshold == 1500
ThermocoupleCap == 1700
TickSeconds == 5
MinuteSeconds == 60
RequiredColumns == {"Piro", "BP2", "Form", "DL", "TL", "DR", "TR"}

\* Series.min(), NaN skipped (NaN when nothing is left)
SeriesMin(vals) ==
    IF AllNaN(vals) THEN NaN
    ELSE CHOOSE m \in {vals[k] : k \in 1..Len(vals)} :
            ~IsNaN(m) /\ \A k \in 1..Len(vals) : IsNaN(vals[k]) \/ m <= vals[k]

\* dict.get(key)
Get(dict, key) == IF key \in DOMAIN dict THEN Some(dict[key]) ELSE None
\* truth value of a dict or None
Truthy(o) == o # None /\ DOMAIN Val(o) # {}

\* heating_to_fill, lines 62-65: the Index of the first row (from the
\* second on) whose Piro differs from the row before, from position i on
RECURSIVE FirstPiroChange(_, _)
FirstPiroChange(rows, i) ==
    IF i >= Len(rows) THEN None
    ELSE IF Ne(rows[i + 1].Piro, rows[i].Piro) THEN Some(rows[i + 1].Index)
         ELSE FirstPiroChange(rows, i + 1)

RECURSIVE heating_to_fill(_, _)
heating_to_fill(d, segs) ==
    IF segs = << >> THEN << >>
    ELSE LET segment == Slice(d, Head(segs)[1], Head(segs)[2])
             first_change == FirstPiroChange(segment.rows, 1)
             end_index == find_fill(segment).value
         IN (IF first_change # None /\ end_index # None
             THEN << <<Val(first_change), Val(end_index)>> >> ELSE << >>)
            \o heating_to_fill(d, Tail(segs))

RECURSIVE start_to_fill(_, _)
start_to_fill(d, segs) ==
    IF segs = << >> THEN << >>
    ELSE LET segment == Slice(d, Head(segs)[1], Head(segs)[2])
             end_index == find_fill(segment).value
         IN (IF end_index # None
             THEN << <<Head(segs)[1], Val(end_index)>> >> ELSE << >>)
            \o start_to_fill(d, Tail(segs))

find_max_bp2(d, heating_segments) ==
    [k \in 1..Len(heating_segments) |->
        LET segment == Slice(d, heating_segments[k][1], heating_segments[k][2]) IN
        IF "BP2" \notin segment.columns THEN None
        ELSE LET max_bp2 == SeriesMax(Column(segment, "BP2"))
             IN IF IsNaN(max_bp2) THEN None ELSE Some(max_bp2)]

find_min_bp2(d, heating_segments) ==
    [k \in 1..Len(heating_segments) |->
        LET segment == Slice(d, heating_segments[k][1], heating_segments[k][2]) IN
        IF "BP2" \notin segment.columns THEN None
        ELSE LET min_bp2 == SeriesMin(Column(segment, "BP2"))
             IN IF IsNaN(min_bp2) THEN None ELSE Some(min_bp2)]

\* holding_time, lines 117-120: a row with a left/right side and a top
\* thermocouple both above 1500
IsHoldingRow(row) ==
    \/ (Gt(row.DL, HoldingTempThreshold) /\ Gt(row.TL, HoldingTempThreshold))
    \/ (Gt(row.DL, HoldingTempThreshold) /\ Gt(row.TR, HoldingTempThreshold))
    \/ (Gt(row.DR, HoldingTempThreshold) /\ Gt(row.TL, HoldingTempThreshold))
    \/ (Gt(row.DR, HoldingTempThreshold) /\ Gt(row.TR, HoldingTempThreshold))

holding_time(d, holding_segments) ==
    [k \in 1..Len(holding_segments) |->
        LET segment == Slice(d, holding_segments[k][1], holding_segments[k][2]) IN
        [num |-> TickSeconds * Len(SelectSeq(segment.rows, IsHoldingRow)),
         den |-> MinuteSeconds]]

\* the row of the fill left out of the count
heating_timeWithoutFillRow(heating_segments) ==
    [k \in 1..Len(heating_segments) |->
        [num |-> (heating_segments[k][2] - heating_segments[k][1]) * TickSeconds,
         den |-> MinuteSeconds]]

heating_time(heating_segments) ==
    [k \in 1..Len(heating_segments) |->
        [num |-> (heating_segments[k][2] - heating_segments[k][1] + 1) * TickSeconds,
         den |-> MinuteSeconds]]

\* lines 64-71: the three leakage fields of a record
LeakageFields(leakage_info) ==
    IF Truthy(leakage_info)
    THEN [offset_leakage |-> Get(Val(leakage_info), "offset"),
          leakage |-> Get(Val(leakage_info), "result"),
          leakage_source |-> Get(Val(leakage_info), "source")]
    ELSE [offset_leakage |-> None, leakage |-> None, leakage_source |-> None]

\* df[df['Index'] == index].iloc[0]
RowAt(d, index) ==
    d.rows[CHOOSE k \in 1..NRows(d) :
              d.rows[k].Index = index /\ \A j \in 1..(k - 1) : d.rows[j].Index # index]

\* lines 35-71: the record of a segment whose fill, heating and holding
\* intervals exist, built on the row source_index
ResultRow(d, seg, source_index, leakage_info) ==
    LET segment == Slice(d, seg[1], seg[2])
        heating_segments == heating_to_fill(d, <<seg>>)
        holding_segments == start_to_fill(d, <<seg>>)
        tp_values == SelectSeq(Column(segment, "TP"), LAMBDA v : Le(v, ThermocoupleCap))
    IN [max_bp2 |-> find_max_bp2(d, heating_segments)[1],
        min_bp2 |-> find_min_bp2(d, heating_segments)[1],
        holding |-> holding_time(d, holding_segments)[1],
        heating |-> heating_time(heating_segments)[1],
        max_temp |-> SeriesMax(Column(segment, "Piro")),
        tp_max |-> IF "TP" \in segment.columns THEN Some(SeriesMax(tp_values)) ELSE None,
        max_form |-> SeriesMax(Column(segment, "Form")),
        ReturnLL |-> ReturnBody(d, seg, << >>)[1][1],
        ReturnLR |-> ReturnBody(d, seg, << >>)[1][2],
        ReturnTL |-> ReturnBody(d, seg, << >>)[1][3],
        ReturnTR |-> ReturnBody(d, seg, << >>)[1][4],
        holding_max_piro |-> PeakBody(d, seg, << >>)[1],
        speed_form_1 |-> SpeedBody(d, seg, << >>)[1].speed_form1,
        speed_form_2 |-> SpeedBody(d, seg, << >>)[1].speed_form2,
        form_status |-> SpeedBody(d, seg, << >>)[1].form_status]
       @@ LeakageFields(leakage_info)
       @@ RowAt(d, source_index)

\* lines 21-73: one iteration of the loop over valid_segments
RowsBodyFromStart(d, seg, leakage_info, rows) ==
    LET segment == Slice(d, seg[1], seg[2])
        fill_value == find_fill(segment).value
    IN IF fill_value = None THEN rows
       ELSE IF heating_to_fill(d, <<seg>>) = << >> THEN rows
       ELSE IF start_to_fill(d, <<seg>>) = << >> THEN rows
       ELSE Append(rows, ResultRow(d, seg, seg[1], leakage_info))

RowsBody(d, seg, leakage_info, rows) ==
    LET segment == Slice(d, seg[1], seg[2])
        fill_value == find_fill(segment).value
    IN IF fill_value = None THEN rows
       ELSE IF heating_to_fill(d, <<seg>>) = << >> THEN rows
       ELSE IF start_to_fill(d, <<seg>>) = << >> THEN rows
       ELSE Append(rows, ResultRow(d, seg, Val(fill_value), leakage_info))

\* line 57: segment['TP'] <= 1700 raises TypeError when the segment's TP
\* holds text; the line is reached by a segment that gets a record. Nothing
\* in the loop catches it.
RowsRaises(d, seg) ==
    /\ RowsBody(d, seg, None, << >>) # << >>
    /\ "TP" \in d.columns
    /\ \E k \in seg[1]..seg[2] : d.rows[k].TP = TextCell

RECURSIVE RowsLoop(_, _, _, _, _)
RowsLoop(d, segs, k, leakage_info, rows) ==
    IF k > Len(segs) THEN Returned(rows)
    ELSE IF RowsRaises(d, segs[k]) THEN Raised("TypeError")
    ELSE RowsLoop(d, segs, k + 1, leakage_info, RowsBody(d, segs[k], leakage_info, rows))

\* process_dataframe_segments(df, leakage_info): the list of records, or
\* the exception that leaves the loop
process_dataframe_segments(d0, leakage_info) ==
    LET d == add_Index(d0) IN
    IF ~(RequiredColumns \subseteq d.columns) THEN Returned(<< >>)
    ELSE LET segs == find_valid_segments_by_form(d) IN
         IF segs = << >> THEN Returned(<< >>)
         ELSE RowsLoop(d, segs, 1, leakage_info, << >>)

MaxRowsLen == 5
RowsFormValues == {0, 1}
RowsPiroValues == {NaN, 1100, 1600}
\* a leakage as the session hands it over, with and without its source
RowsLeakageInfos ==
    {None,
     Some([offset |-> 102, result |-> [num |-> 8364000, den |-> 102], source |-> "1.tdms"]),
     Some([offset |-> 120, result |-> [num |-> 9840000, den |-> 120]])}

\* row k of a stream: the pressure rises with k, the side and top
\* thermocouples of the left follow the pyrometer, those of the right rest
RowsRow(k, form, piro) ==
    [Form |-> form, Piro |-> piro, BP2 |-> 10 * k,
     DL |-> piro, TL |-> piro, DR |-> 0, TR |-> 0]

RowsTable(form, piro) ==
    Table(RequiredColumns, [k \in 1..Len(form) |-> RowsRow(k, form[k], piro[k])])

\* the table without column c
DropColumn(d, c) ==
    Table(d.columns \ {c},
          [k \in 1..NRows(d) |-> [x \in (DOMAIN d.rows[k]) \ {c} |-> d.rows[k][x]]])

InitRows ==
    /\ \E n \in 0..MaxRowsLen :
         \E form \in [1..n -> RowsFormValues], piro \in [1..n -> RowsPiroValues] :
            \/ df = RowsTable(form, piro)
            \/ /\ n = 2
               /\ piro = <<1600, 1100>>
               /\ \E c \in RequiredColumns : df = DropColumn(RowsTable(form, piro), c)
    /\ \E li \in RowsLeakageInfos : arg = [leakage_info |-> li]
    /\ pc = "rows_entry"
    /\ ret = None
    /\ LoopIdle
    /\ HoldIdle
    /\ LeakIdle
    /\ RowsIdle
    /\ SessIdle
    /\ UppfIdle
    /\ MetricIdle

\* lines 6-14: the Index column, the required columns, the segmentation
RowsEnter ==
    /\ pc = "rows_entry"
    /\ df' = add_Index(df)
    /\ IF ~(RequiredColumns \subseteq add_Index(df).columns)
       THEN /\ ret' = Returned(<< >>) /\ pc' = "rows_done"
            /\ UNCHANGED valid_segments
       ELSE /\ valid_segments' = find_valid_segments_by_form(add_Index(df))
            /\ IF find_valid_segments_by_form(add_Index(df)) = << >>
               THEN ret' = Returned(<< >>) /\ pc' = "rows_done"
               ELSE ret' = ret /\ pc' = "rows_loop"
    /\ UNCHANGED <<metricLocals, uppfLocals, arg, loop_i, start_index, holdLocals, leakLocals, rowsLocals, sessLocals>>

\* lines 21-73: one iteration
RowsSegment ==
    /\ pc = "rows_loop"
    /\ loop_i < Len(valid_segments)
    /\ IF RowsRaises(df, valid_segments[loop_i + 1])
       THEN /\ ret' = Raised("TypeError")
            /\ pc' = "rows_done"
            /\ UNCHANGED <<result_rows, loop_i>>
       ELSE /\ result_rows' = RowsBody(df, valid_segments[loop_i + 1], arg.leakage_info,
                                       result_rows)
            /\ loop_i' = loop_i + 1
            /\ UNCHANGED <<pc, ret>>
    /\ UNCHANGED <<metricLocals, uppfLocals, df, arg, start_index, valid_segments, holdLocals, leakLocals, sessLocals>>

\* line 74
RowsReturn ==
    /\ pc = "rows_loop"
    /\ loop_i >= Len(valid_segments)
    /\ ret' = Returned(result_rows)
    /\ pc' = "rows_done"
    /\ UNCHANGED <<metricLocals, uppfLocals, df, arg, segLocals, holdLocals, leakLocals, rowsLocals, sessLocals>>

NextRows == RowsEnter \/ RowsSegment \/ RowsReturn

SpecRows == InitRows /\ [][NextRows]_vars

\* the Piro values of the rows a..b
PiroOf(a, b) == [k \in 1..(b - a + 1) |-> df.rows[a + k - 1].Piro]
\* the runs of non-zero Form in which a position qualifies as a fill
RunsWithFill ==
    {r \in MaximalRuns(FormOf(df)) :
        \E q \in 1..(r[2] - r[1] + 1) : FillQualifies(PiroOf(r[1], r[2]), q)}
\* the Index of the first qualifying position of run r
FillIndexOf(r) ==
    r[1] - 1 + CHOOSE q \in 1..(r[2] - r[1] + 1) :
                  /\ FillQualifies(PiroOf(r[1], r[2]), q)
                  /\ \A j \in 1..(q - 1) : ~FillQualifies(PiroOf(r[1], r[2]), j)

\* C6: on a table with the required columns, process_dataframe_segments
\* emits exactly one record for each segment in which a fill is found and
\* none for any other segment; the records are in segment order, and each
\* is built from the row whose Index is the segment's fill Index, which lies
\* inside the segment's [start, end].
C6_OneRecordPerSegmentWithFill ==
    (pc = "rows_done" /\ RequiredColumns \subseteq df.columns) =>
        LET recs == ret.value IN
        /\ Len(recs) = Cardinality(RunsWithFill)
        /\ \A k \in 1..Len(recs) :
              \E r \in RunsWithFill :
                 /\ recs[k].Index = FillIndexOf(r)
                 /\ r[1] <= recs[k].Index /\ recs[k].Index <= r[2]
                 /\ \A c \in df.columns : recs[k][c] = df.rows[recs[k].Index][c]
        /\ \A k \in 1..(Len(recs) - 1) : recs[k].Index < recs[k + 1].Index

\* two segments, the first without a fill: the only record is built on the
\* fill row of the second, which is not the segment's first row
C6_Witness ==
    /\ pc = "rows_done"
    /\ Len(valid_segments) = 2
    /\ Len(ret.value) = 1
    /\ ret.value[1].Index > valid_segments[2][1]
    /\ ret.value[1].leakage_source # None

---------------------------------------------------------------------------
(* 4.8 Leakage carry-forward: data_orchestrator.process_session_to_excel   *)
(*                                                                         *)
(* A session is a root folder with installations, each holding the files   *)
(* common to its Pasport and Reports folders in modification-time order.   *)
(* A file is described by the kind of its Reports stream, by whether its   *)
(* cache key is in the cache, and by what happens when it is handled:      *)
(*   "ok"              - it is read and processed                          *)
(*   "unreadable"      - read_tdms_file returns None or an empty table     *)
(*   "leakage_raises"  - get_last_valid_leakage raises                     *)
(* Log statuses: "done" 'Успешно', "skipped" 'Пропущено', "error" 'Ошибка'. *)

MaxFiles == 3
FileNames == <<"1.tdms", "2.tdms", "3.tdms", "4.tdms", "5.tdms">>
\* os.path.splitext(filename)[0]
FileNumbers == <<"1", "2", "3", "4", "5">>
FileKinds == {"plain", "leakA", "leakB", "idle", "faulty", "nopiro"}

\* a pour cycle: the form leaves its rest position, the pyrometer rises to
\* 1600 and drops to 1100 at the pour
CyclePiro == <<1100, 1600, 1600, 1100>>
CycleRows ==
    [j \in 1..Len(CyclePiro) |->
        [Form |-> 1, BP2 |-> 20000, Piro |-> CyclePiro[j],
         DL |-> CyclePiro[j], TL |-> CyclePiro[j], DR |-> 0, TR |-> 0]]

\* the rows of a pressure block, with the furnace cold
ColdRows(kind) ==
    [j \in 1..Len(BlockRows(kind)) |->
        BlockRows(kind)[j] @@ [Piro |-> 1000, DL |-> 0, TL |-> 0, DR |-> 0, TR |-> 0]]

\* the Reports stream of a file of each kind:
\*   plain - a resting pressure, then a cycle (no leak candidate)
\*   leakA - a ramp of 0.100 per row, a resting pressure, then a cycle
\*   leakB - a ramp of 0.150 per row, a resting pressure, then a cycle
\*   idle  - a ramp of 0.100 per row and a resting pressure, no cycle
\*   faulty - a resting pressure and a cycle, then the same again, with a
\*            TP channel of text that is shorter than the others: text up
\*            to the end of the first cycle, NaN after it
\*   nopiro - as leakA, without the Piro channel
WithTP(rows, tp) == [j \in 1..Len(rows) |-> rows[j] @@ [TP |-> tp]]
ReportsRows(kind) ==
    CASE kind = "plain" -> ColdRows("stable") \o CycleRows
      [] kind = "leakA" -> ColdRows("ramp") \o ColdRows("stable") \o CycleRows
      [] kind = "leakB" -> ColdRows("steep") \o ColdRows("stable") \o CycleRows
      [] kind = "idle" -> ColdRows("ramp") \o ColdRows("stable")
      [] kind = "faulty" -> WithTP(ColdRows("stable") \o CycleRows, TextCell)
                            \o WithTP(ColdRows("stable") \o CycleRows, NaN)
      [] kind = "nopiro" -> ColdRows("ramp") \o ColdRows("stable") \o CycleRows

\* the channels of the Reports stream
ReportsColumns(kind) ==
    CASE kind = "faulty" -> RequiredColumns \cup {"TP"}
      [] kind = "nopiro" -> RequiredColumns \ {"Piro"}
      [] OTHER -> RequiredColumns

\* lines 213-230: the Reports table with the passport's columns repeated on
\* every row (or, without a passport, NumberOfM from the file name); the
\* passport is taken to hold NumberOfM only
MergedTable(kind, number) ==
    Table(ReportsColumns(kind) \cup {"NumberOfM"},
          [j \in 1..Len(ReportsRows(kind)) |->
              [c \in ReportsColumns(kind) |-> ReportsRows(kind)[j][c]]
              @@ [NumberOfM |-> number]])

\* The Reports streams are the same in every state, so what the two calls
\* of the loop body return is tabulated once: FileLeakage[kind, n] is
\* get_last_valid_leakage(merged_df) for file n of that kind, and
\* FileRows(kind, n, leakage_info) is process_dataframe_segments(merged_df,
\* leakage_info): leakage_info enters a record through lines 64-71 of
\* report_builder only, so the records are tabulated without it and the
\* three leakage fields are set from it.

FileLeakage ==
    Tabulated([kind \in FileKinds, n \in 1..Len(FileNames) |->
                  get_last_valid_leakage(MergedTable(kind, FileNumbers[n]))])

CarriedLeakages ==
    {None} \cup
    {Some([source |-> FileNames[n]] @@ Val(FileLeakage[kind, n])) :
        kind \in {k \in FileKinds : FileLeakage[k, 1] # None}, n \in 1..Len(FileNames)}

FileRowsWithoutLeakage ==
    Tabulated([kind \in FileKinds, n \in 1..Len(FileNames) |->
                  process_dataframe_segments(MergedTable(kind, FileNumbers[n]), None)])

WithLeakageFields(without, leakage_info) ==
    IF "raised" \in DOMAIN without THEN without
    ELSE Returned([k \in 1..Len(without.value) |->
                     LeakageFields(leakage_info) @@ without.value[k]])

FileRows(kind, n, leakage_info) ==
    WithLeakageFields(FileRowsWithoutLeakage[kind, n], leakage_info)

\* f"{installation_name}/{filename}"
CacheKey(installation_name, filename) == <<installation_name, filename>>

LogEntry(installation_name, filename, status, reason, count) ==
    [installation |-> installation_name, file |-> filename,
     status |-> status, reason |-> reason, count |-> count]

\* lines 236-239: the leakage carried forward after a file
UpdatedLeakageNoCarry(current, leakage, filename) ==
    IF leakage # None
    THEN Some([source |-> filename] @@ Val(leakage))
    ELSE None

UpdatedLeakage(current, leakage, filename) ==
    IF leakage # None
    THEN Some([source |-> filename] @@ Val(leakage))
    ELSE current

\* lines 248-249: row['Установка'] = installation_name, for every row
WithInstallation(rows, installation_name) ==
    [k \in 1..Len(rows) |-> [installation |-> installation_name] @@ rows[k]]

\* the descriptions of a file
FileOptions ==
    {[kind |-> "plain", cached |-> FALSE, outcome |-> "ok"],
     [kind |-> "plain", cached |-> TRUE, outcome |-> "ok"],
     [kind |-> "leakA", cached |-> FALSE, outcome |-> "ok"],
     [kind |-> "leakB", cached |-> FALSE, outcome |-> "ok"],
     [kind |-> "leakB", cached |-> TRUE, outcome |-> "ok"],
     [kind |-> "idle", cached |-> FALSE, outcome |-> "ok"],
     [kind |-> "leakA", cached |-> FALSE, outcome |-> "unreadable"],
     [kind |-> "leakA", cached |-> FALSE, outcome |-> "leakage_raises"],
     [kind |-> "faulty", cached |-> FALSE, outcome |-> "ok"],
     [kind |-> "nopiro", cached |-> FALSE, outcome |-> "ok"]}

\* an installation: its folder name, whether it has both the Pasport and
\* the Reports folder, its common files in modification-time order, and the
\* files found in only one of the two folders
Installation(name, has_folders, files, unpaired) ==
    [name |-> name, has_folders |-> has_folders,
     files |-> [k \in 1..Len(files) |-> [name |-> FileNames[k]] @@ files[k]],
     unpaired |-> unpaired]

\* the keys in the cache when the run starts: those of the cached files
CachedKeys(installations) ==
    UNION {{CacheKey(installations[a].name, installations[a].files[k].name) :
              k \in {j \in 1..Len(installations[a].files) : installations[a].files[j].cached}} :
           a \in 1..Len(installations)}

InitSession ==
    /\ \E fs \in SeqsUpTo(FileOptions, 0, MaxFiles) :
         \E s \in 0..Len(fs) :
           \E second \in {"files", "no_folders", "no_common_files"} :
              /\ (second = "files") = (s < Len(fs))
              /\ LET installations ==
                       <<Installation("UVNK1", TRUE, SubSeq(fs, 1, s), << >>),
                         Installation("UVNK2", second # "no_folders",
                                      SubSeq(fs, s + 1, Len(fs)),
                                      IF second = "no_common_files"
                                      THEN <<[file |-> "9.tdms", missing_in |-> "missing in Pasport"]>>
                                      ELSE << >>)>>
                 IN arg = [installations |-> installations,
                           processed_files_set |-> CachedKeys(installations)]
    /\ df = Table({}, << >>)
    /\ pc = "sess_installation"
    /\ ret = None
    /\ LoopIdle
    /\ HoldIdle
    /\ LeakIdle
    /\ RowsIdle
    /\ inst_i = 0 /\ file_i = 0 /\ current_leakage_info = None
    /\ all_result_rows = << >> /\ newly_processed_files_batch = << >>
    /\ execution_logs = << >>
    /\ store = [written |-> None, cache |-> arg.processed_files_set]
    /\ UppfIdle
    /\ MetricIdle

\* line 190: the carried leakage an installation's file loop starts with
LeakageAtInstallationStartKept(current) == current

LeakageAtInstallationStart(current) == None

\* lines 128-190: the next installation folder, up to its first file
SessionEnterInstallation ==
    /\ pc = "sess_installation"
    /\ inst_i < Len(arg.installations)
    /\ LET installation == arg.installations[inst_i + 1]
           unpaired_logs ==
               [k \in 1..Len(installation.unpaired) |->
                   LogEntry(installation.name, installation.unpaired[k].file, "skipped",
                            installation.unpaired[k].missing_in, 0)]
       IN IF ~installation.has_folders
          THEN /\ execution_logs' = Append(execution_logs,
                      LogEntry(installation.name, "-", "skipped", "no Pasport/Reports", 0))
               /\ inst_i' = inst_i + 1
               /\ UNCHANGED <<pc, file_i, current_leakage_info>>
          ELSE IF installation.files = << >>
          THEN /\ execution_logs' = execution_logs \o unpaired_logs
               /\ inst_i' = inst_i + 1
               /\ UNCHANGED <<pc, file_i, current_leakage_info>>
          ELSE /\ execution_logs' = execution_logs \o unpaired_logs
               /\ current_leakage_info' = LeakageAtInstallationStart(current_leakage_info)
               /\ file_i' = 0
               /\ pc' = "sess_file"
               /\ UNCHANGED inst_i
    /\ UNCHANGED <<metricLocals, uppfLocals, df, arg, ret, segLocals, holdLocals, leakLocals, rowsLocals,
                   all_result_rows, newly_processed_files_batch, store>>

\* lines 233-241: the leakage of a file is folded in before the test of
\* is_new, for a file in the cache as for a new one
FoldedLeakageNewOnly(current, leakage, filename, is_new) ==
    IF is_new THEN UpdatedLeakage(current, leakage, filename) ELSE current

FoldedLeakage(current, leakage, filename, is_new) ==
    UpdatedLeakage(current, leakage, filename)

\* lines 192-291: the body of the loop over the installation's files
SessionProcessFile ==
    /\ pc = "sess_file"
    /\ file_i < Len(arg.installations[inst_i + 1].files)
    /\ LET installation_name == arg.installations[inst_i + 1].name
           file == arg.installations[inst_i + 1].files[file_i + 1]
           filename == file.name
           cache_key == CacheKey(installation_name, filename)
           is_new == cache_key \notin arg.processed_files_set
           leakage == FileLeakage[file.kind, file_i + 1]
           carried == FoldedLeakage(current_leakage_info, leakage, filename, is_new)
           rows == FileRows(file.kind, file_i + 1, carried)
       IN IF file.outcome = "unreadable"
          THEN /\ execution_logs' = Append(execution_logs,
                      LogEntry(installation_name, filename, "error", "Reports not read", 0))
               /\ UNCHANGED <<current_leakage_info, all_result_rows,
                              newly_processed_files_batch>>
          ELSE IF file.outcome = "leakage_raises"
          THEN /\ execution_logs' = Append(execution_logs,
                      LogEntry(installation_name, filename, "error", "exception", 0))
               /\ UNCHANGED <<current_leakage_info, all_result_rows,
                              newly_processed_files_batch>>
          ELSE /\ current_leakage_info' = carried
               /\ IF ~is_new
                  THEN /\ execution_logs' = Append(execution_logs,
                              LogEntry(installation_name, filename, "skipped", "in cache", 0))
                       /\ UNCHANGED <<all_result_rows, newly_processed_files_batch>>
                  ELSE IF "raised" \in DOMAIN rows
                  THEN /\ execution_logs' = Append(execution_logs,
                              LogEntry(installation_name, filename, "error", "exception", 0))
                       /\ UNCHANGED <<all_result_rows, newly_processed_files_batch>>
                  ELSE /\ all_result_rows' =
                              all_result_rows \o WithInstallation(rows.value, installation_name)
                       /\ execution_logs' = Append(execution_logs,
                              IF rows.value # << >>
                              THEN LogEntry(installation_name, filename, "done",
                                            "segments processed", Len(rows.value))
                              ELSE LogEntry(installation_name, filename, "skipped",
                                            "no valid segments", 0))
                       /\ newly_processed_files_batch' =
                              Append(newly_processed_files_batch, cache_key)
    /\ file_i' = file_i + 1
    /\ UNCHANGED <<metricLocals, uppfLocals, pc, df, arg, ret, segLocals, holdLocals, leakLocals, rowsLocals,
                   inst_i, store>>

\* the loop over the installation's files has run out
SessionLeaveInstallation ==
    /\ pc = "sess_file"
    /\ file_i >= Len(arg.installations[inst_i + 1].files)
    /\ inst_i' = inst_i + 1
    /\ pc' = "sess_installation"
    /\ UNCHANGED <<metricLocals, uppfLocals, df, arg, ret, segLocals, holdLocals, leakLocals, rowsLocals,
                   file_i, current_leakage_info, all_result_rows,
                   newly_processed_files_batch, execution_logs, store>>

\* lines 306-413: the workbook and the cache after the saving phase; the
\* cache is saved only after the writer has closed without an exception
SavedStoreCacheFirst(current, existing, written, data, logs, processed, batch) ==
    IF existing = "unreadable"
    THEN current
    ELSE [written |-> IF written
                      THEN Some([existing |-> existing, data |-> data, logs |-> logs])
                      ELSE current.written,
          cache |-> IF batch # << >>
                    THEN processed \cup {batch[k] : k \in 1..Len(batch)}
                    ELSE current.cache]

SavedStore(current, existing, written, data, logs, processed, batch) ==
    IF existing = "unreadable" \/ ~written
    THEN current
    ELSE [written |-> Some([existing |-> existing, data |-> data, logs |-> logs]),
          cache |-> IF batch # << >>
                    THEN processed \cup {batch[k] : k \in 1..Len(batch)}
                    ELSE current.cache]

\* lines 294-416: saving. The output file is absent, readable or unreadable
\* when it is looked at, and the write succeeds or fails; the cache is
\* updated only after a successful write, and only with a non-empty batch.
SessionSave ==
    /\ pc = "sess_installation"
    /\ inst_i >= Len(arg.installations)
    /\ IF all_result_rows = << >> /\ execution_logs = << >>
       THEN UNCHANGED store
       ELSE \E existing \in {"absent", "readable", "unreadable"}, written \in BOOLEAN :
               store' = SavedStore(store, existing, written, all_result_rows,
                                   execution_logs, arg.processed_files_set,
                                   newly_processed_files_batch)
    /\ pc' = "sess_done"
    /\ UNCHANGED <<metricLocals, uppfLocals, df, arg, ret, segLocals, holdLocals, leakLocals, rowsLocals,
                   inst_i, file_i, current_leakage_info, all_result_rows,
                   newly_processed_files_batch, execution_logs>>

NextSession ==
    \/ SessionEnterInstallation
    \/ SessionProcessFile
    \/ SessionLeaveInstallation
    \/ SessionSave

SpecSession == InitSession /\ [][NextSession]_vars

\* the leakage of the Reports stream of each kind of file
KindLeakage == [kind \in FileKinds |-> FileLeakage[kind, 1]]
\* a file whose handling reaches the update of the carried leakage with a
\* valid leakage of its own
ProducesLeakage(file) ==
    /\ file.outcome \notin {"unreadable", "leakage_raises"}
    /\ KindLeakage[file.kind] # None
\* the files of the installation a record belongs to, and the record's file
FilesOf(rec) ==
    arg.installations[CHOOSE a \in 1..Len(arg.installations) :
                         arg.installations[a].name = rec.installation].files
FilePosition(rec) == CHOOSE k \in 1..Len(FileNumbers) : FileNumbers[k] = rec.NumberOfM

\* C7: within one installation, with files processed in order, a record
\* carries the rate, offset and source name of the most recent file at or
\* before its own that produced a valid leakage, and null leakage, offset
\* and source when there is none (so with a first file without a leak
\* candidate, a second with one and a third without, the records of the
\* first are null and those of the second and third carry the second's).
C7_LeakageCarriedForward ==
    \A r \in 1..Len(all_result_rows) :
        LET rec == all_result_rows[r]
            files == FilesOf(rec)
            producers == {j \in 1..FilePosition(rec) : ProducesLeakage(files[j])}
        IN IF producers = {}
           THEN /\ rec.leakage = None
                /\ rec.offset_leakage = None
                /\ rec.leakage_source = None
           ELSE LET j == SetMax(producers)
                    leakage == Val(KindLeakage[files[j].kind])
                IN /\ rec.leakage = Some(leakage.result)
                   /\ rec.offset_leakage = Some(leakage.offset)
                   /\ rec.leakage_source = Some(files[j].name)

\* three files of one installation, only the second with a leak candidate,
\* each giving one record
C7_Witness ==
    /\ pc = "sess_done"
    /\ Len(arg.installations[1].files) = 3
    /\ KindLeakage[arg.installations[1].files[1].kind] = None
    /\ KindLeakage[arg.installations[1].files[2].kind] # None
    /\ KindLeakage[arg.installations[1].files[3].kind] = None
    /\ Len(all_result_rows) = 3
    /\ all_result_rows[1].NumberOfM = "1" /\ all_result_rows[1].leakage = None
    /\ all_result_rows[2].NumberOfM = "2" /\ all_result_rows[2].leakage # None
    /\ all_result_rows[3].NumberOfM = "3"
    /\ all_result_rows[3].leakage = all_result_rows[2].leakage
    /\ all_result_rows[3].offset_leakage = Some(102)
    /\ all_result_rows[3].leakage_source = Some("2.tdms")

---------------------------------------------------------------------------
(* UPPF pipeline: uppf_processor.process_files                             *)
(*                                                                         *)
(* A file holds the sheets ОТЧЕТ (report), ПАСПОРТ and ТЕМПЕРАТУРА. Column *)
(* names are written in Latin letters: PIROMETR 'ПИРОМЕТР', FOTOPIROMETR   *)
(* 'ФОТОПИРОМЕТР'. A pyrometer cell is held as pd.to_numeric leaves it (a  *)
(* number or NaN). The passport sheet only adds columns to the record and  *)
(* is not carried. A file is described by                                  *)
(*   report - "unreadable", "empty", "no_pyrometer" or "ok"                *)
(*   pyro   - the ПИРОМЕТР column of the report sheet                       *)
(*   pt6    - "absent" (no PT6 column), "blank" (all null) or "numbers"    *)
(*   temp   - the ТЕМПЕРАТУРА sheet: "unreadable", "no_column" (without    *)
(*            ФОТОПИРОМЕТР), "blank" (all null) or "follows" (the report's  *)
(*            pyrometer)                                                   *)
(* Record keys: max_overheat_temp 'Температура перегрева', fill_temperature *)
(* 'Температура заливки', holding_time 'Время выдержки при перегреве',      *)
(* time_to_pour 'Время от конца выдержки до заливки', full_holding_time    *)
(* 'Полное время выдержки', filename 'Название файла'.                     *)

PyrometerChangeThreshold == 1

\* calculate_holding_time_and_pour_time(series, max_value, fill_index), the
\* fill given as None or Some(position)
calculate_holding_time_and_pour_time(series, max_value, fill_index) ==
    IF fill_index = None THEN <<None, None>>
    ELSE HoldingResult(series, HoldingBand(max_value)[1], HoldingBand(max_value)[2],
                       Val(fill_index))

\* lines 214-220: the first position (0-based, from 1) whose value differs
\* from the one before by more than 1, both being numbers
\* the same without the threshold
RECURSIVE FirstChangeIdxAny(_, _)
FirstChangeIdxAny(temp_series, i) ==
    IF i >= Len(temp_series) THEN None
    ELSE IF Ne(temp_series[i + 1], temp_series[i])
         THEN Some(i)
         ELSE FirstChangeIdxAny(temp_series, i + 1)

RECURSIVE FirstChangeIdx(_, _)
FirstChangeIdx(temp_series, i) ==
    IF i >= Len(temp_series) THEN None
    ELSE IF ~IsNaN(temp_series[i + 1]) /\ ~IsNaN(temp_series[i])
            /\ Abs(temp_series[i + 1] - temp_series[i]) > PyrometerChangeThreshold
         THEN Some(i)
         ELSE FirstChangeIdx(temp_series, i + 1)

\* lines 226-229: find_fill on a copy of the report with the pyrometer
\* column under the name find_fill reads
find_fill_wrapper(pyro) ==
    find_fill_uppf(Table({"PIROMETR", "FOTOPIROMETR"},
                         [k \in 1..Len(pyro) |->
                             [PIROMETR |-> pyro[k], FOTOPIROMETR |-> pyro[k]]])).value

\* lines 235-242: None unless the fill is at or after the maximum
FullHoldingTimeStrictlyAfter(fill_index, max_temp_index) ==
    IF fill_index # None /\ Val(fill_index) > max_temp_index
    THEN Some((Val(fill_index) - max_temp_index) * SamplePeriod)
    ELSE None

FullHoldingTime(fill_index, max_temp_index) ==
    IF fill_index # None /\ Val(fill_index) >= max_temp_index
    THEN Some((Val(fill_index) - max_temp_index) * SamplePeriod)
    ELSE None

\* the PT6 column of a report of n rows
PT6Column(pt6, n) == [k \in 1..n |-> IF pt6 = "numbers" THEN 100 - 10 * k ELSE NaN]

\* lines 257-261: min and max of PT6 over df_report.loc[first_change_idx:fill_index]
PT6Range(pt6_values, first_change_idx, fill_index) ==
    IF fill_index = None THEN <<None, None>>
    ELSE LET interval == SubSeq(pt6_values, first_change_idx + 1, Val(fill_index) + 1)
         IN IF AllNaN(interval) THEN <<None, None>>
            ELSE <<Some(SeriesMin(interval)), Some(SeriesMax(interval))>>

\* the ФОТОПИРОМЕТР column of the temperature sheet, when the sheet is read
\* and has the column
TempColumn(file) ==
    IF file.temp = "follows" THEN file.pyro
    ELSE [k \in 1..Len(file.pyro) |-> NaN]

\* lines 323-329: max_overheat_temp
MaxOverheatTemp(file) ==
    IF file.temp \in {"unreadable", "no_column"} THEN None
    ELSE IF AllNaN(TempColumn(file)) THEN None
    ELSE Some(SeriesMax(TempColumn(file)))

\* lines 351-368: holding_time and time_to_pour
HoldingTimes(file, fill_index) ==
    IF fill_index # None /\ MaxOverheatTemp(file) # None
    THEN calculate_holding_time_and_pour_time(TempColumn(file),
                                              Val(MaxOverheatTemp(file)), fill_index)
    ELSE <<None, None>>

\* lines 173-395: the loop body for a file that is not in the cache: the
\* record it appends, or None when the file is skipped
UppfRecord(file) ==
    IF file.report # "ok" THEN None
    ELSE IF AllNaN(file.pyro) THEN None
    ELSE LET first_change_idx == FirstChangeIdx(file.pyro, 1) IN
         IF first_change_idx = None THEN None
         ELSE LET fill_index == find_fill_wrapper(file.pyro)
                  max_temp_index == IdxMax(file.pyro) - 1
                  pt6_range == PT6Range(PT6Column(file.pt6, Len(file.pyro)),
                                        Val(first_change_idx), fill_index)
                  times == HoldingTimes(file, fill_index)
              IN IF file.pt6 = "absent" THEN None
                 ELSE Some([filename |-> file.name,
                            minPT6 |-> pt6_range[1],
                            maxPT6 |-> pt6_range[2],
                            max_overheat_temp |-> MaxOverheatTemp(file),
                            fill_temperature |->
                                IF fill_index = None THEN None
                                ELSE Some(file.pyro[Val(fill_index) + 1]),
                            holding_time |-> times[1],
                            time_to_pour |-> times[2],
                            full_holding_time |-> FullHoldingTime(fill_index, max_temp_index)])

MaxPyroLen == 3
PyroValues == {NaN, 1100, 1600, 1601}

\* the files with a readable report sheet holding a pyrometer column
UppfGoodFiles ==
    {[report |-> "ok", pyro |-> pyro, pt6 |-> pt6, temp |-> temp] :
        pyro \in SeqsUpTo(PyroValues, 1, MaxPyroLen),
        pt6 \in {"absent", "blank", "numbers"},
        temp \in {"unreadable", "no_column", "blank", "follows"}}
\* the files skipped before the pyrometer is looked at
UppfBadFiles ==
    {[report |-> report, pyro |-> << >>, pt6 |-> "absent", temp |-> "unreadable"] :
        report \in {"unreadable", "empty", "no_pyrometer"}}
\* the file that may come before the one under study
UppfFirstFiles ==
    {[report |-> "ok", pyro |-> <<1601, 1600, 1100>>, pt6 |-> "numbers", temp |-> "follows"],
     [report |-> "unreadable", pyro |-> << >>, pt6 |-> "absent", temp |-> "unreadable"]}

UppfFileNames == <<"a.xlsx", "b.xlsx">>

InitUppf ==
    /\ \E first \in SeqsUpTo(UppfFirstFiles, 0, 1), last \in UppfGoodFiles \cup UppfBadFiles :
         \E cached \in SUBSET {UppfFileNames[k] : k \in 1..(Len(first) + 1)} :
            arg = [files |-> [k \in 1..(Len(first) + 1) |->
                                [name |-> UppfFileNames[k]] @@ (first \o <<last>>)[k]],
                   processed_files_cache |-> cached]
    /\ df = Table({}, << >>)
    /\ pc = "uppf_files"
    /\ ret = None
    /\ LoopIdle
    /\ HoldIdle
    /\ LeakIdle
    /\ RowsIdle
    /\ inst_i = 0 /\ file_i = 0 /\ current_leakage_info = None
    /\ all_result_rows = << >> /\ newly_processed_files_batch = << >>
    /\ execution_logs = << >>
    /\ store = [written |-> None, cache |-> arg.processed_files_cache]
    /\ UppfIdle
    /\ MetricIdle

\* lines 161-395: the loop body for the next file
UppfProcessFile ==
    /\ pc = "uppf_files"
    /\ file_count < Len(arg.files)
    /\ file_count' = file_count + 1
    /\ LET file == arg.files[file_count + 1] IN
       IF file.name \in arg.processed_files_cache \/ UppfRecord(file) = None
       THEN UNCHANGED <<all_rows, newly_processed_files, processed_count>>
       ELSE /\ all_rows' = Append(all_rows, Val(UppfRecord(file)))
            /\ processed_count' = processed_count + 1
            /\ newly_processed_files' = Append(newly_processed_files, file.name)
    /\ UNCHANGED <<pc, df, arg, ret, segLocals, holdLocals, leakLocals, rowsLocals,
                   sessLocals, metricLocals>>

\* lines 404-535: the cache is written when files were processed, then the
\* records are written to the output file, which can fail
UppfFinish ==
    /\ pc = "uppf_files"
    /\ file_count >= Len(arg.files)
    /\ \E written \in BOOLEAN :
          store' = [written |-> IF processed_count # 0 /\ written
                                THEN Some(all_rows) ELSE None,
                    cache |-> IF newly_processed_files # << >>
                              THEN arg.processed_files_cache \cup
                                   {newly_processed_files[k] :
                                       k \in 1..Len(newly_processed_files)}
                              ELSE store.cache]
    /\ pc' = "uppf_done"
    /\ UNCHANGED <<df, arg, ret, segLocals, holdLocals, leakLocals, rowsLocals,
                   inst_i, file_i, current_leakage_info, all_result_rows,
                   newly_processed_files_batch, execution_logs, uppfLocals,
                   metricLocals>>

NextUppf == UppfProcessFile \/ UppfFinish

SpecUppf == InitUppf /\ [][NextUppf]_vars

\* the file of a record, and the files the loop has gone through
UppfFileOf(rec) ==
    arg.files[CHOOSE k \in 1..Len(arg.files) : arg.files[k].name = rec.filename]
UppfSeen == {arg.files[k] : k \in 1..file_count}
UppfHasRecord(file) == \E r \in 1..Len(all_rows) : all_rows[r].filename = file.name

\* positions (1-based) of the pyrometer series that qualify as the fill
\* candidate, and the fill: the first candidate when its value is in range
UppfCandidates(pyro) == {q \in 1..Len(pyro) : FillQualifies(pyro, q)}
UppfFillFound(pyro) ==
    /\ UppfCandidates(pyro) # {}
    /\ LET q == CHOOSE x \in UppfCandidates(pyro) : \A y \in UppfCandidates(pyro) : x <= y
       IN 1350 <= pyro[q] /\ pyro[q] <= 1700
UppfFill(pyro) == CHOOSE x \in UppfCandidates(pyro) : \A y \in UppfCandidates(pyro) : x <= y
\* position (1-based) of the first maximum
UppfArgMax(pyro) ==
    CHOOSE k \in 1..Len(pyro) :
        /\ ~IsNaN(pyro[k])
        /\ \A j \in 1..Len(pyro) : IsNaN(pyro[j]) \/ pyro[j] <= pyro[k]
        /\ \A j \in 1..(k - 1) : IsNaN(pyro[j]) \/ pyro[j] < pyro[k]

\* C11: in every record the full holding time is non-null exactly when a
\* fill was found and its position is at or after the position of the
\* pyrometer maximum; when non-null it is (fill - argmax) x 5 and is not
\* negative.
C11_FullHoldingTime ==
    \A r \in 1..Len(all_rows) :
        LET rec == all_rows[r]
            pyro == UppfFileOf(rec).pyro
        IN /\ (rec.full_holding_time # None) <=>
                  (UppfFillFound(pyro) /\ UppfFill(pyro) >= UppfArgMax(pyro))
           /\ rec.full_holding_time # None =>
                  /\ Val(rec.full_holding_time) = (UppfFill(pyro) - UppfArgMax(pyro)) * 5
                  /\ Val(rec.full_holding_time) >= 0

\* a record whose fill is at the maximum (0 s), and one after it (5 s)
C11_Witness ==
    /\ Len(all_rows) = 2
    /\ all_rows[1].full_holding_time = Some(5)
    /\ all_rows[2].full_holding_time = Some(0)

\* a pyrometer series has a value, and has two consecutive values more than
\* one unit apart
UppfHasNumeric(pyro) == \E k \in 1..Len(pyro) : ~IsNaN(pyro[k])
UppfHasChange(pyro) ==
    \E k \in 1..(Len(pyro) - 1) :
        /\ ~IsNaN(pyro[k]) /\ ~IsNaN(pyro[k + 1])
        /\ (pyro[k + 1] - pyro[k] > 1 \/ pyro[k] - pyro[k + 1] > 1)
UppfFresh(file) == file.name \notin arg.processed_files_cache /\ file.report = "ok"
UppfFillFieldsNull(rec) ==
    /\ rec.fill_temperature = None
    /\ rec.minPT6 = None /\ rec.maxPT6 = None
    /\ rec.holding_time = None /\ rec.time_to_pour = None
    /\ rec.full_holding_time = None

\* C12 (as stated): every file gone through that is not in the cache and has
\* a readable report with a numeric pyrometer value and a PT6 column has a
\* record.
C12_RecordForEveryPyrometerFile ==
    \A file \in UppfSeen :
        (UppfFresh(file) /\ UppfHasNumeric(file.pyro) /\ file.pt6 # "absent")
            => UppfHasRecord(file)

\* C12 (amended): a file gone through has a record exactly when it is not in
\* the cache, its report has a numeric pyrometer value, two consecutive
\* pyrometer values more than one unit apart, and a PT6 column, whether or
\* not a fill is found; a record without a fill has null fill temperature,
\* minPT6, maxPT6, holding time, time to pour and full holding time.
C12_RecordForEveryChangingPyrometerFile ==
    /\ \A file \in UppfSeen :
          UppfHasRecord(file) <=>
              (UppfFresh(file) /\ UppfHasNumeric(file.pyro)
               /\ UppfHasChange(file.pyro) /\ file.pt6 # "absent")
    /\ \A r \in 1..Len(all_rows) :
          ~UppfFillFound(UppfFileOf(all_rows[r]).pyro) => UppfFillFieldsNull(all_rows[r])

\* a record without a fill next to a record with one
C12_Witness ==
    /\ Len(all_rows) = 2
    /\ UppfFillFound(UppfFileOf(all_rows[1]).pyro)
    /\ ~UppfFillFound(UppfFileOf(all_rows[2]).pyro)
    /\ UppfFileOf(all_rows[2]).temp = "follows"
    /\ UppfFillFieldsNull(all_rows[2])
    /\ all_rows[2].max_overheat_temp # None

---------------------------------------------------------------------------
(* The pressure cap of the leak-rate estimator                             *)

\* the scaled pressures (in 1/1000) of the rows of df that satisfy keep, in
\* the order of the rows
KeptPressures(rows, keep(_)) ==
    LET kept == SelectSeq(rows, keep)
    IN [k \in 1..Len(kept) |-> kept[k].BP2]
FormClosed(r) == r.Form = 0
WithinCap(r) == r.BP2 # NaN /\ 0 <= r.BP2 /\ r.BP2 <= 60000
UnderCap(r) == r.BP2 # NaN /\ r.BP2 <= 60000
KeepsWithinCap(r) == FormClosed(r) /\ WithinCap(r)
KeepsUnderCap(r) == FormClosed(r) /\ UnderCap(r)

\* C17 (as stated): after the restriction the rows kept are exactly those
\* with Form 0 and scaled pressure within [0, 60].
C17_KeepsWithinZeroAndCap ==
    (pc = "leak_stable") => temp_df = KeptPressures(df.rows, KeepsWithinCap)

\* C17 (amended): after the restriction the rows kept are exactly those with
\* Form 0 and a scaled pressure that is a number not above 60, negative
\* pressures included: 45 and 60 are kept, anything above 60 is not, and
\* every pressure the later steps work on is at most 60.
C17_KeepsUpToCap ==
    /\ (pc = "leak_stable") => temp_df = KeptPressures(df.rows, KeepsUnderCap)
    /\ \A k \in 1..Len(temp_df) : temp_df[k] # NaN /\ temp_df[k] <= 60000
    /\ (pc = "leak_done" /\ KeptPressures(df.rows, KeepsUnderCap) = << >>) => ret = Returned(None)

\* a table whose rows 0.045 and 60 are both kept
C17_Witness ==
    /\ pc = "leak_stable"
    /\ NRows(df) = 2
    /\ temp_df = <<45000, 60000>>

---------------------------------------------------------------------------
(* Failures and missing columns in a session                               *)

\* the number of segments of a file of the kind that have a fill and whose
\* own handling raises nothing
KindRecordable ==
    Tabulated([kind \in FileKinds |->
        LET d == add_Index(MergedTable(kind, "1"))
            segs == IF RequiredColumns \subseteq d.columns
                    THEN find_valid_segments_by_form(d) ELSE << >>
        IN Cardinality({k \in 1..Len(segs) :
                           /\ RowsBody(d, segs[k], None, << >>) # << >>
                           /\ ~RowsRaises(d, segs[k])})])
\* the records of file j of installation a
RecordsOf(a, j) ==
    {r \in 1..Len(all_result_rows) :
        /\ all_result_rows[r].installation = arg.installations[a].name
        /\ all_result_rows[r].NumberOfM = FileNumbers[j]}

\* C18: at the end of a run every segment of a new, readable file whose own
\* handling raises nothing has its record, whatever fails in the other
\* segments of the file or in other files.
C18_FailureScopedToSegment ==
    pc = "sess_done" =>
        \A a \in 1..Len(arg.installations) :
            \A j \in 1..Len(arg.installations[a].files) :
                LET file == arg.installations[a].files[j]
                IN (arg.installations[a].has_folders /\ ~file.cached /\ file.outcome = "ok")
                      => Cardinality(RecordsOf(a, j)) = KindRecordable[file.kind]

\* C19: the leakage carried forward never comes from a file whose table
\* lacks a required column.
C19_MissingColumnLeavesLeakage ==
    (pc = "sess_file" /\ current_leakage_info # None) =>
        \A j \in 1..Len(arg.installations[inst_i + 1].files) :
            LET file == arg.installations[inst_i + 1].files[j]
            IN file.name = Val(current_leakage_info).source
                  => RequiredColumns \subseteq ReportsColumns(file.kind)

---------------------------------------------------------------------------
(* The measurement window of the leak-rate estimator                       *)

\* the scaled pressures of the widened run k, in stream order
RunPressures(k) == SubSeq(temp_df, segments[k].lo + 1, segments[k].hi)
\* the first smallest sample of the first half, and the first largest sample
FirstHalfMinimum(s) ==
    CHOOSE m \in 1..(Len(s) \div 2) :
        /\ \A j \in 1..(Len(s) \div 2) : s[m] <= s[j]
        /\ \A j \in 1..(m - 1) : s[j] > s[m]
FirstMaximum(s) ==
    CHOOSE x \in 1..Len(s) :
        /\ \A j \in 1..Len(s) : s[j] <= s[x]
        /\ \A j \in 1..(x - 1) : s[j] < s[x]
\* 12 samples after the minimum, or the minimum when that reaches the maximum
MeasureStartFrom(m, x) == IF m + 12 >= x THEN m ELSE m + 12
MeasureStart(s) == MeasureStartFrom(FirstHalfMinimum(s), FirstMaximum(s))
\* min(120, distance to the maximum)
MeasureSpanFrom(start, x) == IF x - start < 120 THEN x - start ELSE 120
MeasureSpan(s) ==
    LET x == FirstMaximum(s)
    IN MeasureSpanFrom(MeasureStartFrom(FirstHalfMinimum(s), x), x)
\* r is the measurement of the run s
Measured(s, r) ==
    LET start == MeasureStart(s)
        span == MeasureSpan(s)
    IN /\ r.offset = span
       /\ r.result.den > 0
       /\ r.result.num * span = (s[start + span] - s[start]) * 820 * r.result.den
\* the runs evaluated so far that give at least 100 samples
Measurable ==
    {k \in 1..seg_k :
        LET s == RunPressures(k) IN Len(s) >= 5 /\ MeasureSpan(s) >= 100}

\* C22: a non-null result of get_last_valid_leakage has an offset between
\* 100 and 120, and its rate is (BP2 at the measurement end - BP2 at the
\* measurement start) x 820 / offset, the measurement starting 12 samples
\* after the first-half minimum (or at the minimum when that would reach
\* the maximum) and spanning min(120, distance to the maximum) samples; a
\* run giving fewer than 100 samples never becomes the result.
C22_OffsetAndRate ==
    /\ pc \in {"leak_loop", "leak_done"} /\ segments # << >> =>
          LET measurable == Measurable
          IN /\ (valid_leakage = None) = (measurable = {})
             /\ valid_leakage # None =>
                   /\ Val(valid_leakage).offset \in 100..120
                   /\ \E k \in measurable :
                         /\ \A j \in measurable : j <= k
                         /\ Measured(RunPressures(k), Val(valid_leakage))
    /\ pc = "leak_done" => ret = Returned(valid_leakage)

\* a run of 120 samples is the result and the run evaluated last, giving 99
\* samples, has not replaced it
C22_Witness ==
    /\ pc = "leak_done" /\ ret.value # None
    /\ Val(ret.value).offset = 120
    /\ Len(segments) > 1
    /\ MeasureSpan(RunPressures(Len(segments))) = 99

---------------------------------------------------------------------------
(* The widening of a candidate run                                         *)

\* the rows of the restricted stream (0-based) from lo up to, not
\* including, hi: 5 rows before the run's first row cand_lo and 5 rows
\* after its last row cand_hi - 1, clamped to the stream
WidenedByFive(seg) ==
    /\ seg.lo = (IF seg.cand_lo - 5 < 0 THEN 0 ELSE seg.cand_lo - 5)
    /\ seg.hi = (IF seg.cand_hi + 5 > Len(temp_df) THEN Len(temp_df) ELSE seg.cand_hi + 5)

\* C23: each candidate run that passes the growth test is evaluated on the
\* run widened by exactly 5 samples before its first row and exactly 5
\* samples after its last row, clamped to the bounds of the restricted
\* stream (in-between, lead-in and trail-out runs alike).
C23_WidenedByFiveEachSide ==
    pc \in {"leak_loop", "leak_done"} =>
        \A k \in 1..Len(segments) : WidenedByFive(segments[k])

---------------------------------------------------------------------------
(* The growth test of the leak-rate estimator: is_valid_growth             *)

MaxGrowthLen == 3
\* deltas (units of 1e-3) on both sides of the edges 0.045 and 0.2 of the
\* main band, one in the sub-band above it and one two sub-bands below it.
\* The edges of the other sub-bands are sums of the float 0.2 - 0.045 and
\* lie off the grid of 1e-3 (0.045 + 2 * 0.155 is 0.35500000000000004): no
\* delta is taken on one of them.
GrowthDeltas == {0 - 111, 44, 45, 199, 200, 354}

InitGrowth ==
    /\ \E speeds \in SeqsUpTo(GrowthDeltas, 0, MaxGrowthLen) : arg = [speeds |-> speeds]
    /\ df = Table({}, << >>)
    /\ pc = "growth_call"
    /\ ret = None
    /\ LoopIdle
    /\ HoldIdle
    /\ LeakIdle
    /\ RowsIdle
    /\ SessIdle
    /\ UppfIdle
    /\ MetricIdle

\* lines 294-323
CallIsValidGrowth ==
    /\ pc = "growth_call"
    /\ ret' = Returned(is_valid_growth(arg.speeds))
    /\ pc' = "growth_done"
    /\ UNCHANGED <<df, arg, segLocals, holdLocals, leakLocals, rowsLocals, sessLocals,
                   uppfLocals, metricLocals>>

NextGrowth == CallIsValidGrowth

SpecGrowth == InitGrowth /\ [][NextGrowth]_vars

\* sub-band b is [0.045 + 0.155 b, 0.045 + 0.155 (b + 1)); b = 0 is the main
\* band; -3..3 covers every delta of GrowthDeltas
SubBands == (0 - 3)..3
InSubBand(v, b) == 45 + 155 * b <= v /\ v < 45 + 155 * (b + 1)
SubBandCount(speeds, b) ==
    Cardinality({k \in 1..Len(speeds) : InSubBand(speeds[k], b)})

\* C24: is_valid_growth returns true exactly when the delta list is
\* non-empty and the most populated sub-band is the main band: true when the
\* main band holds more deltas than every other sub-band, false when some
\* other sub-band holds more than the main band; a list with all its deltas
\* in [0.045, 0.2) is valid, a list with none there is invalid, and the
\* empty list is invalid.
C24_ValidGrowth ==
    pc = "growth_done" =>
        LET speeds == arg.speeds
            main == SubBandCount(speeds, 0)
        IN /\ speeds = << >> => ret = Returned(FALSE)
           /\ (speeds # << >> /\ \A b \in SubBands \ {0} : SubBandCount(speeds, b) < main)
                 => ret = Returned(TRUE)
           /\ (\E b \in SubBands \ {0} : SubBandCount(speeds, b) > main)
                 => ret = Returned(FALSE)
           /\ (speeds # << >> /\ main = Len(speeds)) => ret = Returned(TRUE)
           /\ main = 0 => ret = Returned(FALSE)

\* a valid list holding both 0.045 (in the band) and 0.2 (outside it)
C24_Witness ==
    /\ pc = "growth_done"
    /\ ret = Returned(TRUE)
    /\ \E j, k \in 1..Len(arg.speeds) : arg.speeds[j] = 45 /\ arg.speeds[k] = 200

---------------------------------------------------------------------------
(* The two modes of the form speed                                         *)

\* the kept positions with a positive filtered speed, those of them in bin
\* b, and the first of these
SpeedPositive(raw, filtered) == {i \in SpeedKept(raw) : filtered[i] > 0}
SpeedBinSamples(raw, filtered, b) ==
    {i \in SpeedPositive(raw, filtered) : Binned(filtered[i]) = b}
SpeedBinFirst(raw, filtered, b) ==
    CHOOSE i \in SpeedBinSamples(raw, filtered, b) :
        \A j \in SpeedBinSamples(raw, filtered, b) : i <= j
\* bin b comes before bin c: it has more samples, or as many and the earlier
\* first sample
SpeedBinBefore(raw, filtered, b, c) ==
    \/ Cardinality(SpeedBinSamples(raw, filtered, b))
          > Cardinality(SpeedBinSamples(raw, filtered, c))
    \/ /\ Cardinality(SpeedBinSamples(raw, filtered, b))
            = Cardinality(SpeedBinSamples(raw, filtered, c))
       /\ SpeedBinFirst(raw, filtered, b) < SpeedBinFirst(raw, filtered, c)

\* C25: speed_form_1 is a bin of maximal count among the bins of the
\* positive filtered speeds, and speed_form_2 a bin of maximal count among
\* the remaining bins (null when there is only one bin); when counts tie the
\* bin first met in sample order wins.
C25_TwoMostCommonBins ==
    pc = "speed_done" =>
    \A k \in 1..Len(results) :
        LET raw == SpeedRaw(k)
            filtered == Tabulated(medfilt(raw))
            bins == SpeedPositiveBins(raw, filtered)
            form1 == results[k].speed_form1
            form2 == results[k].speed_form2
        IN bins # {} =>
              /\ form1 # None
              /\ Val(form1) \in bins
              /\ \A c \in bins \ {Val(form1)} : SpeedBinBefore(raw, filtered, Val(form1), c)
              /\ (form2 = None) = (Cardinality(bins) = 1)
              /\ form2 # None =>
                    /\ Val(form2) \in bins \ {Val(form1)}
                    /\ \A c \in bins \ {Val(form1), Val(form2)} :
                          SpeedBinBefore(raw, filtered, Val(form2), c)

\* three bins: the first mode wins by count, the two others tie and the one
\* met first, which is the smaller, is the second mode
C25_Witness ==
    /\ pc = "speed_done"
    /\ Len(results) = 1
    /\ results[1].speed_form2 # None
    /\ LET raw == SpeedRaw(1)
           filtered == Tabulated(medfilt(raw))
           bins == SpeedPositiveBins(raw, filtered)
       IN /\ Cardinality(bins) = 3
          /\ Cardinality(SpeedBinSamples(raw, filtered, Val(results[1].speed_form1))) = 2
          /\ \E c \in bins \ {Val(results[1].speed_form1), Val(results[1].speed_form2)} :
                Val(results[1].speed_form2) < c

---------------------------------------------------------------------------
(* Short segments of the form-speed classifier                             *)

\* C27: a segment with 5 or fewer samples yields null speed_form_1, null
\* speed_form_2 and status Form_OK, whatever its Form values: blanking the
\* first two and the last two filtered speeds leaves no valid filtered value
\* (and a single raw speed filters to 0); a speed is reported only for
\* segments of at least 6 samples.
C27_ShortSegmentsNoSpeed ==
    pc = "speed_done" =>
    \A k \in 1..Len(results) :
        /\ Len(SpeedRowsOf(k)) <= 5 => results[k] = NoSpeed
        /\ Len(SpeedRowsOf(k)) = 2 => medfilt(SpeedRaw(k)) = <<0>>
        /\ results[k].speed_form1 # None => Len(SpeedRowsOf(k)) >= 6

\* a segment of 5 samples with four positive raw speeds, then a segment of 2
\* samples with one positive raw speed
C27_Witness ==
    /\ pc = "speed_done"
    /\ Len(results) = 2
    /\ Len(SpeedRowsOf(1)) = 5 /\ Len(SpeedRowsOf(2)) = 2
    /\ \A i \in 1..4 : SpeedRaw(1)[i] > 0
    /\ SpeedRaw(2)[1] > 0
    /\ results[1] = NoSpeed /\ results[2] = NoSpeed

---------------------------------------------------------------------------
(* The heating window of a record                                          *)

\* the segment (a run of non-zero Form) that holds Index f
SegmentOf(f) == CHOOSE r \in MaximalRuns(FormOf(df)) : r[1] <= f /\ f <= r[2]
\* a != b of two floats: true when either is NaN
FloatsDiffer(a, b) == IsNaN(a) \/ IsNaN(b) \/ a # b
\* the Indexes of the segment, from its second row on, whose Piro differs
\* from the row before
ChangedRows(r) ==
    {i \in (r[1] + 1)..r[2] : FloatsDiffer(df.rows[i].Piro, df.rows[i - 1].Piro)}
HeatingStart(r) == CHOOSE i \in ChangedRows(r) : \A j \in ChangedRows(r) : i <= j

\* C26: for every segment in which a fill is found, the start of the heating
\* window (the first Index of the segment whose Piro differs from its
\* predecessor) exists and is at most fill + 1; the reported heating time is
\* (fill - start + 1) x 5 / 60, never negative, and 0 exactly when
\* start = fill + 1, and then the pressure minimum and maximum over the
\* heating window are null.
C26_HeatingWindow ==
    (pc = "rows_done" /\ RequiredColumns \subseteq df.columns) =>
        \A k \in 1..Len(ret.value) :
            LET rec == ret.value[k]
                fill == rec.Index
                r == SegmentOf(fill)
            IN /\ ChangedRows(r) # {}
               /\ HeatingStart(r) <= fill + 1
               /\ rec.heating.den = 60
               /\ rec.heating.num = (fill - HeatingStart(r) + 1) * 5
               /\ rec.heating.num >= 0
               /\ (rec.heating.num = 0) = (HeatingStart(r) = fill + 1)
               /\ HeatingStart(r) = fill + 1 =>
                     (rec.max_bp2 = None /\ rec.min_bp2 = None)

\* a fill on the first row of its segment: the heating window is empty
C26_Witness ==
    /\ pc = "rows_done" /\ RequiredColumns \subseteq df.columns
    /\ Len(ret.value) = 1
    /\ ret.value[1].Index = valid_segments[1][1]
    /\ ret.value[1].heating.num = 0
    /\ ret.value[1].max_bp2 = None /\ ret.value[1].min_bp2 = None

---------------------------------------------------------------------------
(* The carried leakage across installation folders and cached files        *)

\* the positions of the files of a record's installation that produce a
\* valid leakage
OwnProducers(rec) ==
    {j \in 1..Len(FilesOf(rec)) : ProducesLeakage(FilesOf(rec)[j])}

\* C28: the carried leakage is none when the file loop of an installation
\* starts, and the rate, offset and source of a record come from a file of
\* the record's own installation at or before the record's file: a record
\* of an installation none of whose files has a valid leakage carries none,
\* whatever an earlier installation found.
C28_LeakageResetPerInstallation ==
    /\ (pc = "sess_file" /\ file_i = 0) => current_leakage_info = None
    /\ \A r \in 1..Len(all_result_rows) :
          LET rec == all_result_rows[r]
              files == FilesOf(rec)
          IN /\ OwnProducers(rec) = {}
                   => /\ rec.leakage = None
                      /\ rec.offset_leakage = None
                      /\ rec.leakage_source = None
             /\ rec.leakage_source # None
                   => \E j \in OwnProducers(rec) :
                         /\ j <= FilePosition(rec)
                         /\ rec.leakage_source = Some(files[j].name)
                         /\ rec.leakage = Some(Val(KindLeakage[files[j].kind]).result)
                         /\ rec.offset_leakage = Some(Val(KindLeakage[files[j].kind]).offset)

\* the first installation found a valid leakage and put it on a record, the
\* second has no file with one and its record carries none
C28_Witness ==
    /\ pc = "sess_done"
    /\ \E j \in 1..Len(arg.installations[1].files) :
          ProducesLeakage(arg.installations[1].files[j])
    /\ \A j \in 1..Len(arg.installations[2].files) :
          ~ProducesLeakage(arg.installations[2].files[j])
    /\ \E r \in 1..Len(all_result_rows) :
          /\ all_result_rows[r].installation = "UVNK1"
          /\ all_result_rows[r].leakage_source # None
    /\ \E r \in 1..Len(all_result_rows) :
          /\ all_result_rows[r].installation = "UVNK2"
          /\ all_result_rows[r].leakage = None
          /\ all_result_rows[r].offset_leakage = None
          /\ all_result_rows[r].leakage_source = None

\* C29: a file whose key is in the cache gives no record, and its valid
\* leakage, with its name as source, is on every record of the later files
\* of its installation up to the next file with a valid leakage.
C29_CachedFileFeedsLeakage ==
    /\ \A a \in 1..Len(arg.installations) :
          \A j \in 1..Len(arg.installations[a].files) :
              arg.installations[a].files[j].cached => RecordsOf(a, j) = {}
    /\ \A r \in 1..Len(all_result_rows) :
          LET rec == all_result_rows[r]
              files == FilesOf(rec)
          IN \A j \in 1..FilePosition(rec) :
                (/\ files[j].cached
                 /\ ProducesLeakage(files[j])
                 /\ \A i \in (j + 1)..FilePosition(rec) : ~ProducesLeakage(files[i]))
                   => /\ rec.leakage_source = Some(files[j].name)
                      /\ rec.leakage = Some(Val(KindLeakage[files[j].kind]).result)
                      /\ rec.offset_leakage = Some(Val(KindLeakage[files[j].kind]).offset)

\* the first file is in the cache and has a valid leakage, the second is
\* new and has none: the only records are the second's, with the first's
\* leakage
C29_Witness ==
    /\ pc = "sess_done"
    /\ Len(arg.installations[1].files) >= 2
    /\ arg.installations[1].files[1].cached
    /\ ProducesLeakage(arg.installations[1].files[1])
    /\ ~ProducesLeakage(arg.installations[1].files[2])
    /\ RecordsOf(1, 1) = {}
    /\ RecordsOf(1, 2) # {}
    /\ \A r \in RecordsOf(1, 2) :
          /\ all_result_rows[r].leakage_source = Some("1.tdms")
          /\ all_result_rows[r].leakage # None

---------------------------------------------------------------------------
(* The processed-file cache                                                *)

\* the files whose handling reaches line 271: new, read, and handled
\* without an exception
HandledNew(file, k) ==
    /\ ~file.cached
    /\ file.outcome = "ok"
    /\ "raised" \notin DOMAIN FileRowsWithoutLeakage[file.kind, k]

\* C30: the saved cache differs from the one loaded only after the workbook
\* was written, and a key it gains is that of a new file handled in this
\* run without an exception; a failed read of the existing workbook or a
\* failed write leaves it as loaded.
C30_CacheOnlyAfterWrite ==
    /\ store.written = None => store.cache = arg.processed_files_set
    /\ arg.processed_files_set \subseteq store.cache
    /\ \A key \in store.cache \ arg.processed_files_set :
          \E a \in 1..Len(arg.installations) :
             \E k \in 1..Len(arg.installations[a].files) :
                /\ key = CacheKey(arg.installations[a].name,
                                  arg.installations[a].files[k].name)
                /\ HandledNew(arg.installations[a].files[k], k)

\* the workbook is written after a run with a new file that gave no record
\* and a new file whose handling raised: the cache gains the first key only
C30_Witness ==
    /\ pc = "sess_done"
    /\ store.written # None
    /\ \E k \in 1..Len(arg.installations[1].files) :
          /\ HandledNew(arg.installations[1].files[k], k)
          /\ RecordsOf(1, k) = {}
          /\ CacheKey("UVNK1", FileNames[k]) \in store.cache
    /\ \E k \in 1..Len(arg.installations[1].files) :
          /\ arg.installations[1].files[k].kind = "faulty"
          /\ CacheKey("UVNK1", FileNames[k]) \notin store.cache

===========================================================================
